---- MODULE Spec2Model ----
(***************************************************************************)
(* State-machine model of the RTCM3 health analyzer (src/unpack_log.py):   *)
(* the single-pass parser parse_rtcm3 with its per-family handlers, the    *)
(* GLONASS day-wrap detector, the cycle-slip detector and the per-epoch    *)
(* row builder build_epoch_rows.                                           *)
(*                                                                         *)
(* Conventions.                                                            *)
(*  - Python None is the empty tuple <<>>; a present value v is <<v>>.     *)
(*  - A Python str is a tuple of one-character strings ("G05" is           *)
(*    <<"G","0","5">>), so that prn[0] and len(prn) can be taken.          *)
(*  - Times the code holds as float seconds (utc_sod = utc_ms / 1000) are  *)
(*    held as integer milliseconds; 43200 s is 43200000 ms.                *)
(***************************************************************************)
EXTENDS Integers, Sequences, FiniteSets, TLC

\* ---------------------------------------------------------------- bounds
\* Messages the reader yields in one parse (general specification).
MaxMsgs == 2
\* Messages the reader yields in one clock-driven session.
MaxClockMsgs == 3

\* ------------------------------------------------------------- constants
GPS_LEAP_SECONDS_MS == 18000
GLONASS_UTC_OFFSET_MS == 10800000
LEGACY_LOCK_SLIP_THRESHOLD == 2
LOW_SNR_THRESHOLD == 35
MS_PER_DAY == 86400000
MS_PER_WEEK == 7 * MS_PER_DAY

MSM7_TYPES == {"1077", "1087", "1097", "1127"}
LEGACY_GPS_TYPES == {"1001", "1002", "1003", "1004"}
LEGACY_GPS_L2_TYPES == {"1003", "1004"}
LEGACY_GLONASS_TYPES == {"1009", "1010", "1011", "1012"}
LEGACY_GLONASS_L2_TYPES == {"1011", "1012"}
POSITION_TYPES == {"1005", "1006"}

\* CONSTELLATION_MAP[identity]
CONSTELLATION_MAP(identity) ==
  CASE identity \in {"1077", "1001", "1002", "1003", "1004"} -> "GPS"
    [] identity \in {"1087", "1009", "1010", "1011", "1012"} -> "GLONASS"
    [] identity = "1097" -> "Galileo"
    [] identity = "1127" -> "BeiDou"

\* ------------------------------------------------------- Python helpers
None == <<>>
Some(v) == <<v>>
Val(x) == x[1]

DigitChar == <<"0", "1", "2", "3", "4", "5", "6", "7", "8", "9">>

\* str(n) for a non-negative int
RECURSIVE DecStr(_)
DecStr(n) ==
  IF n < 10 THEN <<DigitChar[n + 1]>>
  ELSE DecStr(n \div 10) \o <<DigitChar[(n % 10) + 1]>>

\* f"{n:02d}" for a non-negative int
Pad02(n) == IF n < 10 THEN <<"0">> \o DecStr(n) ELSE DecStr(n)

\* Variant of DictIncr that stores 1 whatever the count was.
DictIncrForgetful(d, key) ==
  IF key \in DOMAIN d THEN [d EXCEPT ![key] = 1] ELSE d @@ (key :> 1)

\* dict.get(key, 0) + 1 stored back under key
DictIncr(d, key) ==
  IF key \in DOMAIN d THEN [d EXCEPT ![key] = @ + 1] ELSE d @@ (key :> 1)

RECURSIVE SumSeq(_)
SumSeq(s) == IF s = <<>> THEN 0 ELSE s[1] + SumSeq(Tail(s))

\* ------------------------------------------------------------------ state
VARIABLES
  file_date,          \* parse_filename_timestamp: None or <<weekday>> (Monday = 0)
  gps_day,            \* _gps_day_of_week(file_date), 0 when file_date is None
  epochs,             \* result.epochs: EpochData records in dict insertion order
  positions,          \* result.positions
  message_counts,     \* result.message_counts
  total_messages,     \* result.total_messages
  lock_history,       \* (prn, signal) -> previous lock time indicator
  glo_day_count,      \* GLONASS day wraps seen so far
  last_glo_utc_sod,   \* None or <<ms>>: UTC time of day of the last DF034
  pc,                 \* "parse" while the reader loop runs, "rows" after build_epoch_rows
  rows,               \* build_epoch_rows(parse_result, file_date, gps_day)
  reader_log,         \* history: one entry per pair the reader has yielded
  now,                \* session clock: true UTC ms since file_date 00:00:00
  ticked,             \* the clock advanced since the last message
  filepath,           \* the input path (args.file of main, argument of parse_rtcm3)
  args,               \* main: the parsed command line, None outside main
  fs,                 \* main: the file system main looks at and writes to
  exit_code,          \* main: None while running, <<n>> after sys.exit(n) or return
  printed,            \* main: what has been printed, one entry per print
  status_json,        \* sync_logs: None, or <<build_status_json(pr, path)>>
  epoch_keys,         \* detect_data_gaps: its argument
  gaps,               \* detect_data_gaps: None before the call, <<list>> after
  pos_info,           \* _detect_position_change: None before the call, <<dict>> after
  options,            \* sync_logs: [dry_run, limit, delete_after_upload]
  device,             \* the ZIP archives in the device's log directory, sorted by name
  gcs,                \* GCS objects under the prefix: name -> times it was written
  local_zips,         \* ZIP files in temp_dir
  extract_dirs,       \* extraction directories in temp_dir: ZIP name -> file names
  dry_run_dir,        \* file names in ./dry_run
  temp_dir,           \* temp_dir exists
  existing_files,     \* sync_logs: what list_gcs_files returned
  sftp,               \* sync_logs: its variable sftp is set
  ssh,                \* sync_logs: its variable ssh is set
  ssh_conn,           \* the SSH connection: "none", "open" or "closed"
  sftp_conn,          \* the SFTP channel: "none", "open" or "closed"
  zip_files,          \* sync_logs: ZIP names still to be looped over
  zip_name,           \* sync_logs: None, or <<the ZIP being processed>>
  rtcm3_files,        \* sync_logs: the files extract_rtcm3_files returned
  todo_files,         \* files the running loop (status or upload) has still to do
  sync_pc,            \* sync_logs: where it is
  raised,             \* sync_logs: an exception is propagating
  faults,             \* failures of the device, of gcloud and of the analysis so far
  sync_log            \* history: what this run of sync_logs has done, in order

\* State of main outside parse_rtcm3, and of the two analysis functions
\* checked on their own.
main_vars == <<args, fs, exit_code, printed, status_json>>
fn_vars == <<epoch_keys, gaps, pos_info>>

\* State of sync_logs: its options and the device, the stores it writes to,
\* its connections, its loop variables.
store_vars == <<gcs, local_zips, extract_dirs, dry_run_dir, temp_dir>>
conn_vars == <<sftp, ssh, ssh_conn, sftp_conn>>
loop_vars == <<existing_files, zip_files, zip_name, rtcm3_files, todo_files>>
sync_vars == <<options, device, store_vars, conn_vars, loop_vars, sync_pc, raised,
               faults, sync_log>>

vars == <<file_date, gps_day, epochs, positions, message_counts, total_messages,
          lock_history, glo_day_count, last_glo_utc_sod, pc, rows, reader_log,
          now, ticked, filepath, main_vars, fn_vars, sync_vars>>

\* Pairs the reader has yielded so far.
msgs_read == Len(reader_log)

\* _gps_day_of_week(dt): (dt.weekday() + 1) % 7
gps_day_of_week(weekday) == (weekday + 1) % 7

\* ------------------------------------------------- file-name date parser
\* os.path.basename(filepath): what follows the last "/"
RECURSIVE basename(_)
basename(path) ==
  IF \E i \in 1..Len(path) : path[i] = "/"
    THEN basename(Tail(path))
    ELSE path

IsDigit(c) == \E d \in 1..10 : DigitChar[d] = c
DigitVal(c) == (CHOOSE d \in 1..10 : DigitChar[d] = c) - 1

\* int() of a run of decimal digits
RECURSIVE DigitsVal(_)
DigitsVal(ds) ==
  IF ds = <<>> THEN 0
  ELSE 10 * DigitsVal(SubSeq(ds, 1, Len(ds) - 1)) + DigitVal(ds[Len(ds)])

\* The tail ".RTCM3" of the pattern, matched with re.IGNORECASE.
ExtensionChars == <<{"."}, {"R", "r"}, {"T", "t"}, {"C", "c"}, {"M", "m"}, {"3"}>>

\* re.search(r"(\d{14})\.RTCM3$", basename, re.IGNORECASE): group 1 as
\* <<digits>>, None when there is no match.
filename_stamp(name) ==
  LET n == Len(name)
  IN IF /\ n >= 20
        /\ \A i \in 1..6 : name[n - 6 + i] \in ExtensionChars[i]
        /\ \A i \in (n - 19)..(n - 6) : IsDigit(name[i])
       THEN Some(SubSeq(name, n - 19, n - 6))
       ELSE None

IsLeap(y) == (y % 4 = 0 /\ y % 100 # 0) \/ y % 400 = 0
DaysInMonth(y, m) ==
  IF m = 2 THEN (IF IsLeap(y) THEN 29 ELSE 28)
  ELSE IF m \in {4, 6, 9, 11} THEN 30 ELSE 31

RECURSIVE DaysBeforeMonth(_, _)
DaysBeforeMonth(y, m) ==
  IF m = 1 THEN 0 ELSE DaysBeforeMonth(y, m - 1) + DaysInMonth(y, m - 1)

\* The fields strptime reads with "%Y%m%d%H%M%S" from 14 digits.
stamp_fields(ds) ==
  [year |-> DigitsVal(SubSeq(ds, 1, 4)), month |-> DigitsVal(SubSeq(ds, 5, 6)),
   day |-> DigitsVal(SubSeq(ds, 7, 8)), hour |-> DigitsVal(SubSeq(ds, 9, 10)),
   minute |-> DigitsVal(SubSeq(ds, 11, 12)), second |-> DigitsVal(SubSeq(ds, 13, 14))]

\* datetime.strptime returns (it raises ValueError otherwise).
strptime_valid(ds) ==
  LET f == stamp_fields(ds)
  IN /\ f.year >= 1
     /\ f.month \in 1..12
     /\ f.day \in 1..DaysInMonth(f.year, f.month)
     /\ f.hour <= 23 /\ f.minute <= 59 /\ f.second <= 59

\* dt.weekday() of the parsed date (Monday = 0): (dt.toordinal() + 6) % 7
stamp_weekday(ds) ==
  LET f == stamp_fields(ds)
      y == f.year - 1
      ordinal == y * 365 + y \div 4 - y \div 100 + y \div 400
                 + DaysBeforeMonth(f.year, f.month) + f.day
  IN (ordinal + 6) % 7

\* parse_filename_timestamp: None, or the datetime held as <<weekday>> (the
\* callers use its date only: gws_to_timestamp resets the time of day).
parse_filename_timestamp(path) ==
  LET m == filename_stamp(basename(path))
  IN IF m # None THEN Some(stamp_weekday(Val(m))) ELSE None

\* "logs/" and "base_"
DirChars == <<"l", "o", "g", "s", "/">>
StemChars == <<"b", "a", "s", "e", "_">>

\* Paths tried: logs/base_20240108120000.RTCM3 (a Monday),
\* base_20240113235959.rtcm3 (a Saturday, lower-case extension),
\* logs/base.RTCM3 (no digits) and base_2024010812000.RTCM3 (13 digits).
FilePaths ==
  { DirChars \o StemChars \o DecStr(20240108) \o DecStr(120000)
      \o <<".", "R", "T", "C", "M", "3">>,
    StemChars \o DecStr(20240113) \o DecStr(235959)
      \o <<".", "r", "t", "c", "m", "3">>,
    DirChars \o <<"b", "a", "s", "e", ".", "R", "T", "C", "M", "3">>,
    StemChars \o DecStr(20240108) \o DecStr(12000)
      \o <<".", "R", "T", "C", "M", "3">> }

\* File-name dates tried: no timestamp in the name, a Monday, a Saturday.
FileDates == { parse_filename_timestamp(p) : p \in FilePaths }

\* main has not been entered; neither analysis function has been called.
MainIdle ==
  /\ args = None
  /\ fs = None
  /\ exit_code = None
  /\ printed = <<>>
  /\ status_json = None

FnIdle ==
  /\ epoch_keys = <<>>
  /\ gaps = None
  /\ pos_info = None

\* sync_logs is not running and has nothing to work on.
SyncIdle ==
  /\ options = [dry_run |-> FALSE, limit |-> 0, delete_after_upload |-> FALSE]
  /\ device = <<>>
  /\ gcs = [n \in {} |-> 0]
  /\ local_zips = {}
  /\ extract_dirs = [z \in {} |-> {}]
  /\ dry_run_dir = {}
  /\ temp_dir = FALSE
  /\ existing_files = {}
  /\ sftp = FALSE
  /\ ssh = FALSE
  /\ ssh_conn = "none"
  /\ sftp_conn = "none"
  /\ zip_files = <<>>
  /\ zip_name = None
  /\ rtcm3_files = <<>>
  /\ todo_files = <<>>
  /\ sync_pc = "idle"
  /\ raised = FALSE
  /\ faults = 0
  /\ sync_log = <<>>

Init ==
  /\ filepath \in FilePaths
  /\ filename_stamp(basename(filepath)) # None
       => strptime_valid(Val(filename_stamp(basename(filepath))))
  /\ file_date = parse_filename_timestamp(filepath)
  /\ MainIdle
  /\ SyncIdle
  /\ FnIdle
  /\ gps_day = IF file_date # None THEN gps_day_of_week(Val(file_date)) ELSE 0
  /\ epochs = <<>>
  /\ positions = <<>>
  /\ message_counts = [k \in {} |-> 0]
  /\ total_messages = 0
  /\ lock_history = [k \in {} |-> 0]
  /\ glo_day_count = 0
  /\ last_glo_utc_sod = None
  /\ pc = "parse"
  /\ rows = <<>>
  /\ reader_log = <<>>
  /\ now = 0
  /\ ticked = FALSE

\* ------------------------------------------------------ frame dispatcher
\* The counters every decoded message bumps before dispatch.
CountMessage(identity) ==
  /\ message_counts' = DictIncr(message_counts, identity)
  /\ total_messages' = total_messages + 1

Reading == pc = "parse" /\ msgs_read < MaxMsgs

\* History of the reader loop: the yielded message (None for a None
\* message), its identity ("None" for a None message), its epoch field, the
\* GWS key and day-wrap count its handler was given, the clock when it was
\* yielded, and the observations its handler appended, in order.
LogEntry(msg, identity, epoch_ms, gws, day_count, stored) ==
  [msg |-> msg, identity |-> identity, epoch_ms |-> epoch_ms, gws |-> gws,
   day_count |-> day_count, at |-> now, stored |-> stored]

\* The observations appended between two values of result.epochs (one
\* message touches one epoch).
NewObs(eps, eps2) ==
  LET changed == { i \in 1..Len(eps2) :
                     i > Len(eps) \/ eps2[i].observations # eps[i].observations }
  IN IF changed = {} THEN <<>>
     ELSE LET i == CHOOSE j \in changed : TRUE
              old == IF i > Len(eps) THEN 0 ELSE Len(eps[i].observations)
          IN SubSeq(eps2[i].observations, old + 1, Len(eps2[i].observations))

\* `if msg is None: continue`
MsgNone ==
  /\ Reading
  /\ reader_log' = Append(reader_log, LogEntry(None, "None", None, None, glo_day_count, <<>>))
  /\ UNCHANGED <<sync_vars, filepath, main_vars, fn_vars,
                 file_date, gps_day, epochs, positions, message_counts,
                 total_messages, lock_history, glo_day_count, last_glo_utc_sod,
                 pc, rows, now, ticked>>

\* Types outside the dispatch table: counted only.
OtherTypes == {"1013", "1230"}

MsgOther ==
  /\ Reading
  /\ \E identity \in OtherTypes :
       /\ identity \notin MSM7_TYPES \cup LEGACY_GPS_TYPES
                          \cup LEGACY_GLONASS_TYPES \cup POSITION_TYPES
       /\ CountMessage(identity)
       /\ reader_log' = Append(reader_log,
                               LogEntry(Some([identity |-> identity]), identity, None, None,
                                        glo_day_count, <<>>))
  /\ UNCHANGED <<sync_vars, filepath, main_vars, fn_vars,
                 file_date, gps_day, epochs, positions, lock_history,
                 glo_day_count, last_glo_utc_sod, pc, rows, now, ticked>>

\* ------------------------------------------------------- time normalizer
\* _gps_epoch_to_gws: int(epoch_ms / 1000)
gps_epoch_to_gws(epoch_ms) == epoch_ms \div 1000

\* Variant of glonass_utc_ms that leaves a negative result unwrapped.
glonass_utc_ms_unwrapped(epoch_ms) == epoch_ms - GLONASS_UTC_OFFSET_MS

\* DF034 (Moscow ms of day) to UTC ms of day: subtract the offset, wrap a
\* negative result into the previous UTC day.
glonass_utc_ms(epoch_ms) ==
  IF epoch_ms - GLONASS_UTC_OFFSET_MS < 0
    THEN epoch_ms - GLONASS_UTC_OFFSET_MS + MS_PER_DAY
    ELSE epoch_ms - GLONASS_UTC_OFFSET_MS

\* _glonass_epoch_to_gws: int((gps_day + glo_day_count) * 86400 + utc_sod + 18)
glonass_epoch_to_gws(epoch_ms, day, day_count) ==
  ((day + day_count) * 86400 * 1000 + glonass_utc_ms(epoch_ms) + GPS_LEAP_SECONDS_MS)
    \div 1000

\* Variant of day_wrap with the two comparisons exchanged.
day_wrap_exchanged(last, utc_ms) ==
  last # None /\ Val(last) < 43200 * 1000 /\ utc_ms > 43200 * 1000

\* The wrap test of the dispatcher: previous UTC second-of-day > 43200 and
\* the new one < 43200.
day_wrap(last, utc_ms) ==
  last # None /\ Val(last) > 43200 * 1000 /\ utc_ms < 43200 * 1000

\* Variant of gws_to_timestamp that does not look at file_date.
gws_to_timestamp_dateless(gws, fdate, day) ==
  Some(gws - day * 86400 - GPS_LEAP_SECONDS_MS \div 1000)

\* gws_to_timestamp: None without a file date, else the datetime
\* base + timedelta(seconds = gws - gps_day*86400 - 18), held as <<seconds
\* after file_date 00:00:00>>.
gws_to_timestamp(gws, fdate, day) ==
  IF fdate = None THEN None
  ELSE Some(gws - day * 86400 - GPS_LEAP_SECONDS_MS \div 1000)

\* ---------------------------------------------------------- epoch buckets
HasEpoch(eps, gws) == \E i \in 1..Len(eps) : eps[i].epoch_gws = gws
EpochIndex(eps, gws) == CHOOSE i \in 1..Len(eps) : eps[i].epoch_gws = gws

\* _get_or_create_epoch
get_or_create_epoch(eps, gws) ==
  IF HasEpoch(eps, gws) THEN eps
  ELSE Append(eps, [epoch_gws |-> gws, observations |-> <<>>, cycle_slips |-> 0])

CellObs(prn, signal, cn0, lock_time) ==
  [prn |-> prn, signal |-> signal, cn0 |-> cn0, lock_time |-> lock_time]

\* `lock_time or 0`
LockOrZero(lock) == IF lock = None \/ Val(lock) = 0 THEN 0 ELSE Val(lock)

\* ----------------------------------------------------- cycle-slip detector
\* Variant of check_lock_slip whose history is kept per satellite, the two
\* bands of a satellite sharing one entry.
check_lock_slip_per_satellite(prn, signal, lock_time, lh) ==
  LET key == <<prn, "L1">>
      slip == /\ key \in DOMAIN lh
              /\ lh[key] > 10
              /\ lock_time <= LEGACY_LOCK_SLIP_THRESHOLD
  IN [slip |-> slip,
      lock_history |-> IF key \in DOMAIN lh THEN [lh EXCEPT ![key] = lock_time]
                       ELSE lh @@ (key :> lock_time)]

\* _check_lock_slip: the returned flag and the updated lock_history.
check_lock_slip(prn, signal, lock_time, lh) ==
  LET key == <<prn, signal>>
      slip == /\ key \in DOMAIN lh
              /\ lh[key] > 10
              /\ lock_time <= LEGACY_LOCK_SLIP_THRESHOLD
  IN [slip |-> slip,
      lock_history |-> IF key \in DOMAIN lh THEN [lh EXCEPT ![key] = lock_time]
                       ELSE lh @@ (key :> lock_time)]

\* One observation of a handler loop, applied to the handler's running state
\* acc = [epoch, lock_history]:
\*   if lock is not None and _check_lock_slip(...): epoch.cycle_slips += 1
\*   epoch.observations.append(CellObs(..., lock_time = lock or 0))
append_obs(acc, prn, signal, cn0, lock) ==
  LET chk == IF lock # None THEN check_lock_slip(prn, signal, Val(lock), acc.lock_history)
             ELSE [slip |-> FALSE, lock_history |-> acc.lock_history]
  IN [epoch |-> [acc.epoch EXCEPT
                   !.cycle_slips = @ + (IF chk.slip THEN 1 ELSE 0),
                   !.observations = Append(@, CellObs(prn, signal, cn0, LockOrZero(lock)))],
      lock_history |-> chk.lock_history]

\* Writes a handler's finished epoch back into the dict.
StoreEpoch(eps, epoch) == [eps EXCEPT ![EpochIndex(eps, epoch.epoch_gws)] = epoch]

\* ------------------------------------------------------------ MSM7 handler
\* PRN values the decoder may hand back: a Python int or a Python str.
IntPrn(n) == [kind |-> "int", int |-> n, str |-> <<>>]
StrPrn(s) == [kind |-> "str", int |-> 0, str |-> s]

msm7_prefix(identity) ==
  CASE CONSTELLATION_MAP(identity) = "GPS" -> "G"
    [] CONSTELLATION_MAP(identity) = "GLONASS" -> "R"
    [] CONSTELLATION_MAP(identity) = "Galileo" -> "E"
    [] CONSTELLATION_MAP(identity) = "BeiDou" -> "C"
    [] OTHER -> "?"

\* `if prn_raw is None or cn0 is None or cn0 <= 0: continue`
msm7_skip(cell) ==
  cell.CELLPRN = None \/ cell.DF408 = None \/ Val(cell.DF408) <= 0

\* prn = f"{prefix}{prn_raw}" if isinstance(prn_raw, int) else str(prn_raw)
msm7_prn(prefix, prn_raw) ==
  IF prn_raw.kind = "int" THEN <<prefix>> \o DecStr(prn_raw.int) ELSE prn_raw.str

\* Body of `for i in range(ncell)` for one cell.
msm7_cell(acc, cell, prefix) ==
  IF msm7_skip(cell) THEN acc
  ELSE append_obs(acc, msm7_prn(prefix, Val(cell.CELLPRN)), cell.CELLSIG,
                  Val(cell.DF408), cell.DF407)

RECURSIVE msm7_loop(_, _, _)
msm7_loop(acc, cells, prefix) ==
  IF cells = <<>> THEN acc
  ELSE msm7_loop(msm7_cell(acc, Head(cells), prefix), Tail(cells), prefix)

\* _process_msm7: the new [epochs, lock_history].  NCell is Len(msg.cells).
process_msm7(msg, identity, eps, lh) ==
  IF msg.DF004 = None \/ Len(msg.cells) = 0
    THEN [epochs |-> eps, lock_history |-> lh]
  ELSE
    LET gws == gps_epoch_to_gws(Val(msg.DF004))
        eps1 == get_or_create_epoch(eps, gws)
        acc == msm7_loop([epoch |-> eps1[EpochIndex(eps1, gws)], lock_history |-> lh],
                         msg.cells, msm7_prefix(identity))
    IN [epochs |-> StoreEpoch(eps1, acc.epoch), lock_history |-> acc.lock_history]

MsmCell(prn, sig, cn0, lock) ==
  [CELLPRN |-> prn, CELLSIG |-> sig, DF408 |-> cn0, DF407 |-> lock]
MsmMsg(identity, df004, cells) ==
  [identity |-> identity, DF004 |-> df004, cells |-> cells]

\* MSM7 messages tried: every MSM7 type with one good cell, and for 1077 the
\* absent epoch, the empty cell list, a second epoch, and cells with each
\* field absent or at its limit.
MsmGood == MsmCell(Some(IntPrn(5)), "1C", Some(40), Some(11))
MsmCellLists ==
  { <<MsmCell(Some(StrPrn(<<"0", "0", "5">>)), "1C", Some(40), Some(11))>>,
    <<MsmCell(None, "1C", Some(40), Some(11))>>,
    <<MsmCell(Some(IntPrn(5)), "1C", None, Some(11))>>,
    <<MsmCell(Some(IntPrn(5)), "1C", Some(0), Some(11))>>,
    <<MsmCell(Some(IntPrn(5)), "1C", Some(30), None)>>,
    <<MsmCell(Some(IntPrn(5)), "1C", Some(40), Some(2))>>,
    <<MsmGood, MsmCell(Some(IntPrn(5)), "2W", Some(40), Some(11))>>,
    <<MsmGood, MsmCell(Some(IntPrn(17)), "1C", Some(40), Some(0))>> }
MsmIn ==
  { MsmMsg(id, Some(1000), <<MsmGood>>) : id \in MSM7_TYPES }
  \cup { MsmMsg("1077", e, cs) : e \in {None, Some(2999)}, cs \in {<<>>, <<MsmGood>>} }
  \cup { MsmMsg("1077", Some(1000), cs) : cs \in MsmCellLists \cup {<<>>} }

\* The MSM7 branch of the dispatcher for one message.
Msm7Branch(msg) ==
  /\ msg.identity \in MSM7_TYPES
  /\ CountMessage(msg.identity)
  /\ LET r == process_msm7(msg, msg.identity, epochs, lock_history)
     IN /\ epochs' = r.epochs
        /\ lock_history' = r.lock_history
        /\ reader_log' = Append(reader_log,
             LogEntry(Some(msg), msg.identity, msg.DF004,
                      IF msg.DF004 = None THEN None
                      ELSE Some(gps_epoch_to_gws(Val(msg.DF004))),
                      glo_day_count, NewObs(epochs, r.epochs)))
  /\ UNCHANGED <<sync_vars, filepath, main_vars, fn_vars,
                 file_date, gps_day, positions, glo_day_count, last_glo_utc_sod,
                 pc, rows>>

MsgMsm7 ==
  /\ Reading
  /\ \E msg \in MsmIn : Msm7Branch(msg)
  /\ UNCHANGED <<now, ticked>>

\* ---------------------------------------------------- legacy GPS handler
\* One satellite of a legacy message.  GPS reads prn = DF009, L1 = DF015 /
\* DF013, L2 = DF020 / DF019; GLONASS reads prn = DF038, L1 = DF045 / DF043,
\* L2 = DF050 / DF049.
LegacySat(prn, l1_cn0, l1_lock, l2_cn0, l2_lock) ==
  [prn |-> prn, l1_cn0 |-> l1_cn0, l1_lock |-> l1_lock,
   l2_cn0 |-> l2_cn0, l2_lock |-> l2_lock]
LegacyMsg(identity, epoch_ms, sats) ==
  [identity |-> identity, epoch_ms |-> epoch_ms, sats |-> sats]

\* Variant of band_present that lets a zero C/N0 through.
band_present_or_zero(cn0) == cn0 # None /\ Val(cn0) >= 0

\* `if cn0 is not None and cn0 > 0:` guarding one band's block
band_present(cn0) == cn0 # None /\ Val(cn0) > 0

\* One band of one satellite (the L1 block, or the L2 block with "L2").
legacy_band(acc, prn, signal, cn0, lock) ==
  IF band_present(cn0) THEN append_obs(acc, prn, signal, Val(cn0), lock) ELSE acc

\* Body of `for i in range(nsat)` for one satellite; letter is "G" or "R".
legacy_sat(acc, sat, letter, has_l2) ==
  IF sat.prn = None THEN acc
  ELSE LET prn == <<letter>> \o Pad02(Val(sat.prn))
           acc1 == legacy_band(acc, prn, "L1", sat.l1_cn0, sat.l1_lock)
       IN IF has_l2 THEN legacy_band(acc1, prn, "L2", sat.l2_cn0, sat.l2_lock)
          ELSE acc1

RECURSIVE legacy_loop(_, _, _, _)
legacy_loop(acc, sats, letter, has_l2) ==
  IF sats = <<>> THEN acc
  ELSE legacy_loop(legacy_sat(acc, Head(sats), letter, has_l2), Tail(sats),
                   letter, has_l2)

\* _process_legacy_gps: the new [epochs, lock_history].  DF006 is Len(msg.sats).
process_legacy_gps(msg, identity, eps, lh) ==
  IF msg.epoch_ms = None \/ Len(msg.sats) = 0
    THEN [epochs |-> eps, lock_history |-> lh]
  ELSE
    LET gws == gps_epoch_to_gws(Val(msg.epoch_ms))
        eps1 == get_or_create_epoch(eps, gws)
        acc == legacy_loop([epoch |-> eps1[EpochIndex(eps1, gws)], lock_history |-> lh],
                           msg.sats, "G", identity \in LEGACY_GPS_L2_TYPES)
    IN [epochs |-> StoreEpoch(eps1, acc.epoch), lock_history |-> acc.lock_history]

\* _process_legacy_glonass: the new [epochs, lock_history].  DF035 is Len(msg.sats).
process_legacy_glonass(msg, identity, day, day_count, eps, lh) ==
  IF msg.epoch_ms = None \/ Len(msg.sats) = 0
    THEN [epochs |-> eps, lock_history |-> lh]
  ELSE
    LET gws == glonass_epoch_to_gws(Val(msg.epoch_ms), day, day_count)
        eps1 == get_or_create_epoch(eps, gws)
        acc == legacy_loop([epoch |-> eps1[EpochIndex(eps1, gws)], lock_history |-> lh],
                           msg.sats, "R", identity \in LEGACY_GLONASS_L2_TYPES)
    IN [epochs |-> StoreEpoch(eps1, acc.epoch), lock_history |-> acc.lock_history]

\* Variant of glo_day_state that counts two days for one wrap.
glo_day_state_two_days(df034, day_count, last) ==
  IF df034 = None THEN [glo_day_count |-> day_count, last_glo_utc_sod |-> last]
  ELSE [glo_day_count |-> IF day_wrap(last, glonass_utc_ms(Val(df034)))
                          THEN day_count + 2 ELSE day_count,
        last_glo_utc_sod |-> Some(glonass_utc_ms(Val(df034)))]

\* The GLONASS branch of the dispatcher up to the handler call: the day-wrap
\* count and last UTC second-of-day after looking at DF034.
glo_day_state(df034, day_count, last) ==
  IF df034 = None THEN [glo_day_count |-> day_count, last_glo_utc_sod |-> last]
  ELSE [glo_day_count |-> IF day_wrap(last, glonass_utc_ms(Val(df034)))
                          THEN day_count + 1 ELSE day_count,
        last_glo_utc_sod |-> Some(glonass_utc_ms(Val(df034)))]

\* Legacy satellites tried: a good L1/L2 pair, and one with each field
\* absent or at a limit of its test.
GoodSat(n) == LegacySat(Some(n), Some(40), Some(11), Some(38), Some(11))
LegacySatLists ==
  { <<LegacySat(None, Some(40), Some(11), Some(38), Some(11))>>,
    <<LegacySat(Some(12), None, Some(11), Some(38), Some(11))>>,
    <<LegacySat(Some(12), Some(0), Some(11), Some(0), Some(11))>>,
    <<LegacySat(Some(12), Some(40), None, Some(38), None)>>,
    <<LegacySat(Some(12), Some(40), Some(2), Some(38), Some(2))>>,
    <<LegacySat(Some(12), Some(40), Some(3), Some(38), Some(10))>>,
    <<GoodSat(12), GoodSat(7)>> }

\* Legacy GPS messages tried: every type with one good satellite, 1004 and
\* 1002 at a second epoch, 1004 with its epoch absent, with no satellite
\* and with each of the satellites above.
LegacyGpsIn ==
  { LegacyMsg(id, Some(1000), <<GoodSat(12)>>) : id \in LEGACY_GPS_TYPES }
  \cup { LegacyMsg("1004", e, ss) : e \in {None, Some(2000)}, ss \in {<<>>, <<GoodSat(12)>>} }
  \cup { LegacyMsg("1004", Some(1000), ss) : ss \in LegacySatLists \cup {<<>>} }
  \cup { LegacyMsg("1002", Some(2000), <<GoodSat(12)>>) }

\* The legacy GPS branch of the dispatcher for one message.
GpsBranch(msg) ==
  /\ msg.identity \in LEGACY_GPS_TYPES
  /\ CountMessage(msg.identity)
  /\ LET r == process_legacy_gps(msg, msg.identity, epochs, lock_history)
     IN /\ epochs' = r.epochs
        /\ lock_history' = r.lock_history
        /\ reader_log' = Append(reader_log,
             LogEntry(Some(msg), msg.identity, msg.epoch_ms,
                      IF msg.epoch_ms = None THEN None
                      ELSE Some(gps_epoch_to_gws(Val(msg.epoch_ms))),
                      glo_day_count, NewObs(epochs, r.epochs)))
  /\ UNCHANGED <<sync_vars, filepath, main_vars, fn_vars,
                 file_date, gps_day, positions, glo_day_count, last_glo_utc_sod,
                 pc, rows>>

MsgLegacyGps ==
  /\ Reading
  /\ \E msg \in LegacyGpsIn : GpsBranch(msg)
  /\ UNCHANGED <<now, ticked>>

\* DF034 values tried: absent, 23:36:40 and 05:33:20 Moscow time.
LegacyGlonassIn ==
  { LegacyMsg(id, Some(85000000), <<GoodSat(4)>>) : id \in LEGACY_GLONASS_TYPES }
  \cup { LegacyMsg("1012", e, ss) : e \in {None, Some(20000000)}, ss \in {<<>>, <<GoodSat(4)>>} }
  \cup { LegacyMsg("1012", Some(85000000), ss) : ss \in LegacySatLists \cup {<<>>} }

\* The whole GLONASS branch for one message.
GlonassBranch(msg) ==
  /\ msg.identity \in LEGACY_GLONASS_TYPES
  /\ CountMessage(msg.identity)
  /\ LET d == glo_day_state(msg.epoch_ms, glo_day_count, last_glo_utc_sod)
         r == process_legacy_glonass(msg, msg.identity, gps_day, d.glo_day_count,
                                     epochs, lock_history)
     IN /\ glo_day_count' = d.glo_day_count
        /\ last_glo_utc_sod' = d.last_glo_utc_sod
        /\ epochs' = r.epochs
        /\ lock_history' = r.lock_history
        /\ reader_log' = Append(reader_log,
             LogEntry(Some(msg), msg.identity, msg.epoch_ms,
                      IF msg.epoch_ms = None THEN None
                      ELSE Some(glonass_epoch_to_gws(Val(msg.epoch_ms), gps_day,
                                                     d.glo_day_count)),
                      d.glo_day_count, NewObs(epochs, r.epochs)))
  /\ UNCHANGED <<sync_vars, filepath, main_vars, fn_vars,
                 file_date, gps_day, positions, pc, rows>>

MsgLegacyGlonass ==
  /\ Reading
  /\ \E msg \in LegacyGlonassIn : GlonassBranch(msg)
  /\ UNCHANGED <<now, ticked>>

\* ------------------------------------------------------ position collector
PositionMsg(identity, df003, x, y, z, df028) ==
  [identity |-> identity, DF003 |-> df003, DF025 |-> x, DF026 |-> y, DF027 |-> z,
   DF028 |-> df028]

\* Variant of process_position that reads DF028 whatever the type.
process_position_any_height(msg, identity) ==
  [station_id |-> msg.DF003, ecef_x |-> msg.DF025, ecef_y |-> msg.DF026,
   ecef_z |-> msg.DF027, antenna_height |-> msg.DF028]

\* _process_position: the appended report
process_position(msg, identity) ==
  [station_id |-> msg.DF003, ecef_x |-> msg.DF025, ecef_y |-> msg.DF026,
   ecef_z |-> msg.DF027,
   antenna_height |-> IF identity = "1006" THEN msg.DF028 ELSE None]

\* Station messages tried (coordinates in units of 0.01 mm): both types
\* with every field present, a 1005 with no field at all, and a 1006 at
\* another point with one coordinate and the height absent.
PositionIn ==
  { PositionMsg("1005", Some(7), Some(100), Some(200), Some(300), Some(15)),
    PositionMsg("1006", Some(7), Some(100), Some(200), Some(300), Some(15)),
    PositionMsg("1005", None, None, None, None, None),
    PositionMsg("1006", Some(8), Some(50100), None, Some(300), None) }

MsgPosition ==
  /\ Reading
  /\ \E msg \in PositionIn :
       /\ msg.identity \in POSITION_TYPES
       /\ CountMessage(msg.identity)
       /\ positions' = Append(positions, process_position(msg, msg.identity))
       /\ reader_log' = Append(reader_log,
                               LogEntry(Some(msg), msg.identity, None, None,
                                        glo_day_count, <<>>))
  /\ UNCHANGED <<sync_vars, filepath, main_vars, fn_vars,
                 file_date, gps_day, epochs, lock_history, glo_day_count,
                 last_glo_utc_sod, pc, rows, now, ticked>>

\* ------------------------------------------------- aggregation: epoch rows
\* sorted(keys) for a set of distinct integers
RECURSIVE SortedSeq(_)
SortedSeq(S) ==
  IF S = {} THEN <<>>
  ELSE LET m == CHOOSE x \in S : \A y \in S : x <= y
       IN <<m>> \o SortedSeq(S \ {m})

EpochKeys(eps) == { eps[i].epoch_gws : i \in 1..Len(eps) }

\* Variant of row_order that keeps the dict's insertion order.
row_order_inserted(eps) == [i \in 1..Len(eps) |-> eps[i].epoch_gws]

\* The order build_epoch_rows visits the epochs in: sorted(parse_result.epochs)
row_order(eps) == SortedSeq(EpochKeys(eps))

\* prefix_map.get(obs.prn[0]) for an observation that passes
\* `obs.prn and len(obs.prn) >= 2`; "" when it maps to nothing.
prn_constellation(prn) ==
  IF Len(prn) >= 2
    THEN CASE prn[1] = "G" -> "GPS"
           [] prn[1] = "R" -> "GLONASS"
           [] prn[1] = "E" -> "Galileo"
           [] prn[1] = "C" -> "BeiDou"
           [] OTHER -> ""
    ELSE ""

\* Variant of sat_counts_for_epoch that counts observations, not distinct PRNs.
sat_counts_per_observation(epoch) ==
  [const \in {"GPS", "GLONASS", "Galileo", "BeiDou"} |->
     Cardinality({ j \in 1..Len(epoch.observations) :
                     prn_constellation(epoch.observations[j].prn) = const })]

\* _sat_counts_for_epoch: constellation -> number of distinct PRNs
sat_counts_for_epoch(epoch) ==
  [const \in {"GPS", "GLONASS", "Galileo", "BeiDou"} |->
     Cardinality({ epoch.observations[i].prn : i \in
                     { j \in 1..Len(epoch.observations) :
                         prn_constellation(epoch.observations[j].prn) = const } })]

\* sum(sat_counts.values())
total_sats_of(sat_counts) ==
  sat_counts["GPS"] + sat_counts["GLONASS"] + sat_counts["Galileo"] + sat_counts["BeiDou"]

\* round(num / den, 1) in tenths, for a quotient whose tie cases are exact
\* in binary (round-half-even)
RoundTenths(num, den) ==
  LET q == (10 * num) \div den
      r == (10 * num) % den
  IN IF 2 * r < den THEN q
     ELSE IF 2 * r > den THEN q + 1
     ELSE IF q % 2 = 0 THEN q ELSE q + 1

RECURSIVE MinSeq(_)
MinSeq(s) ==
  IF Len(s) = 1 THEN s[1]
  ELSE LET m == MinSeq(Tail(s)) IN IF s[1] < m THEN s[1] ELSE m

\* One row of build_epoch_rows (mean_snr and min_snr in tenths of dB-Hz).
epoch_row(epoch, fdate, day) ==
  LET sat_counts == sat_counts_for_epoch(epoch)
      cn0_values == SelectSeq([i \in 1..Len(epoch.observations) |->
                                 epoch.observations[i].cn0], LAMBDA v : v > 0)
  IN [epoch_time_gws |-> epoch.epoch_gws,
      timestamp |-> gws_to_timestamp(epoch.epoch_gws, fdate, day),
      gps_sats |-> sat_counts["GPS"],
      glonass_sats |-> sat_counts["GLONASS"],
      galileo_sats |-> sat_counts["Galileo"],
      beidou_sats |-> sat_counts["BeiDou"],
      total_sats |-> total_sats_of(sat_counts),
      mean_snr |-> IF cn0_values # <<>>
                   THEN RoundTenths(SumSeq(cn0_values), Len(cn0_values)) ELSE 0,
      min_snr |-> IF cn0_values # <<>> THEN 10 * MinSeq(cn0_values) ELSE 0,
      low_snr_count |-> Len(SelectSeq(cn0_values, LAMBDA v : v < LOW_SNR_THRESHOLD)),
      cycle_slips |-> epoch.cycle_slips]

\* build_epoch_rows
build_epoch_rows(eps, fdate, day) ==
  LET order == row_order(eps)
  IN [i \in 1..Len(order) |-> epoch_row(eps[EpochIndex(eps, order[i])], fdate, day)]

\* The reader is exhausted; main builds the rows from the ParseResult.
BuildRows ==
  /\ pc = "parse"
  /\ pc' = "rows"
  /\ rows' = build_epoch_rows(epochs, file_date, gps_day)
  /\ UNCHANGED <<sync_vars, filepath, main_vars, fn_vars,
                 file_date, gps_day, epochs, positions, message_counts,
                 total_messages, lock_history, glo_day_count, last_glo_utc_sod,
                 reader_log, now, ticked>>

Next ==
  \/ MsgNone
  \/ MsgOther
  \/ MsgMsm7
  \/ MsgLegacyGps
  \/ MsgLegacyGlonass
  \/ MsgPosition
  \/ BuildRows

Spec == Init /\ [][Next]_vars

\* ------------------------------------------- session driven by one clock
\* A receiver whose clock reads `now` (true UTC ms since 00:00:00 of the
\* file-name date) time-tags a GPS-time-base message with DF004 = ms into
\* the GPS week (GPS time is UTC + 18 s) and a GLONASS message with
\* DF034 = Moscow (UTC + 3 h) ms of day.
ClockDF004(t, weekday) ==
  (gps_day_of_week(weekday) * MS_PER_DAY + t + GPS_LEAP_SECONDS_MS) % MS_PER_WEEK
ClockDF034(t) == (t + GLONASS_UTC_OFFSET_MS) % MS_PER_DAY

\* Clock readings at the start of the session: 12:00:00 and 19:13:20 UTC.
ClockStarts == {43200000, 69200000}
\* Advances between messages: 0.5 s, 1 s, 1 h 23 min 20 s, 1 h 30 min, 11 h 59 min 59 s.
ClockSteps == {500, 1000, 5000000, 5400000, 43199000}
\* File-name dates of the clock-driven session: a Monday, a Saturday.
ClockFilePaths == { p \in FilePaths : parse_filename_timestamp(p) # None }
ClockFileDates == { parse_filename_timestamp(p) : p \in ClockFilePaths }

ClockInit ==
  /\ filepath \in ClockFilePaths
  /\ file_date = parse_filename_timestamp(filepath)
  /\ MainIdle
  /\ SyncIdle
  /\ FnIdle
  /\ gps_day = gps_day_of_week(Val(file_date))
  /\ epochs = <<>>
  /\ positions = <<>>
  /\ message_counts = [k \in {} |-> 0]
  /\ total_messages = 0
  /\ lock_history = [k \in {} |-> 0]
  /\ glo_day_count = 0
  /\ last_glo_utc_sod = None
  /\ pc = "parse"
  /\ rows = <<>>
  /\ reader_log = <<>>
  /\ now \in ClockStarts
  /\ ticked = FALSE

ClockReading == pc = "parse" /\ msgs_read < MaxClockMsgs

\* The clock advances (once between two messages).
Tick ==
  /\ ClockReading
  /\ ~ticked
  /\ \E d \in ClockSteps : now' = now + d
  /\ ticked' = TRUE
  /\ UNCHANGED <<sync_vars, filepath, main_vars, fn_vars,
                 file_date, gps_day, epochs, positions, message_counts,
                 total_messages, lock_history, glo_day_count, last_glo_utc_sod,
                 pc, rows, reader_log>>

\* The reader yields a 1004 message tagged with the current instant.
ClockGps ==
  /\ ClockReading
  /\ GpsBranch(LegacyMsg("1004", Some(ClockDF004(now, Val(file_date))), <<GoodSat(12)>>))
  /\ ticked' = FALSE
  /\ UNCHANGED now

\* The reader yields a 1012 message tagged with the current instant.
ClockGlonass ==
  /\ ClockReading
  /\ GlonassBranch(LegacyMsg("1012", Some(ClockDF034(now)), <<GoodSat(4)>>))
  /\ ticked' = FALSE
  /\ UNCHANGED now

ClockNext ==
  \/ Tick
  \/ ClockGps
  \/ ClockGlonass

ClockSpec == ClockInit /\ [][ClockNext]_vars

\* ------------------------------------------------------------ gap detector
\* The state of a parse that has not started (the analysis functions below
\* are called on lists, with no parse behind them).
ParseIdle ==
  /\ filepath = <<>>
  /\ file_date = None
  /\ gps_day = 0
  /\ epochs = <<>>
  /\ message_counts = [k \in {} |-> 0]
  /\ total_messages = 0
  /\ lock_history = [k \in {} |-> 0]
  /\ glo_day_count = 0
  /\ last_glo_utc_sod = None
  /\ pc = "call"
  /\ rows = <<>>
  /\ reader_log = <<>>
  /\ now = 0
  /\ ticked = FALSE

\* Largest epoch key tried by the gap detector's own specification.
MaxGapKey == 9

\* Variant of gap_exceeds that also reports a difference of exactly 2.
gap_reaches(diff) == diff >= 2

\* `if diff > 2:`
gap_exceeds(diff) == diff > 2

\* Body of `for i in range(1, len(epoch_keys))`, from 0-based index i on
\* (epoch_keys[i] is keys[i + 1]).
RECURSIVE gap_loop(_, _, _)
gap_loop(keys, i, acc) ==
  IF i >= Len(keys) THEN acc
  ELSE LET diff == keys[i + 1] - keys[i]
       IN gap_loop(keys, i + 1,
                   IF gap_exceeds(diff)
                     THEN Append(acc, [start_gws |-> keys[i], end_gws |-> keys[i + 1],
                                       duration_sec |-> diff])
                     ELSE acc)

\* detect_data_gaps
detect_data_gaps(keys) ==
  IF Len(keys) < 2 THEN <<>> ELSE gap_loop(keys, 1, <<>>)

\* Arguments tried: every ascending list of distinct keys in 0..MaxGapKey
\* (what sorted(parse_result.epochs.keys()) hands over).
GapKeyLists == { SortedSeq(S) : S \in SUBSET (0..MaxGapKey) }

GapInit ==
  /\ ParseIdle
  /\ MainIdle
  /\ SyncIdle
  /\ positions = <<>>
  /\ epoch_keys \in GapKeyLists
  /\ gaps = None
  /\ pos_info = None

\* gaps = detect_data_gaps(epoch_keys)
DetectGaps ==
  /\ pc = "call"
  /\ gaps = None
  /\ gaps' = Some(detect_data_gaps(epoch_keys))
  /\ pc' = "returned"
  /\ UNCHANGED <<sync_vars, filepath, main_vars, epoch_keys, pos_info,
                 file_date, gps_day, epochs, positions, message_counts,
                 total_messages, lock_history, glo_day_count, last_glo_utc_sod,
                 rows, reader_log, now, ticked>>

GapNext == DetectGaps

GapSpec == GapInit /\ [][GapNext]_vars

\* ------------------------------------------------- position change analyzer
\* Coordinates are integers in units of 0.00001 m; a rounded coordinate is
\* an integer in units of 0.0001 m.  The values tried never end in 5, so
\* round() has no tie to break.
\* Reports handed to the analyzer on its own (length of the list).
MaxReports == 4

\* Variant of Round4 that drops the fifth decimal.
Round4_truncating(v) == v \div 10

\* round(c, 4)
Round4(v) == (v + 5) \div 10

\* `p["ecef_x"] is not None and p["ecef_y"] is not None and p["ecef_z"] is not None`
has_coords(p) == p.ecef_x # None /\ p.ecef_y # None /\ p.ecef_z # None

\* coords: the (x, y, z) of the reports that have all three
pos_coords(ps) ==
  LET kept == SelectSeq(ps, has_coords)
  IN [i \in 1..Len(kept) |->
        <<Val(kept[i].ecef_x), Val(kept[i].ecef_y), Val(kept[i].ecef_z)>>]

rounded_coord(c) == <<Round4(c[1]), Round4(c[2]), Round4(c[3])>>

\* The seen/unique loop: rounded coordinates in order of first appearance.
RECURSIVE unique_rounded(_, _)
unique_rounded(coords, unique) ==
  IF coords = <<>> THEN unique
  ELSE LET rounded == rounded_coord(Head(coords))
       IN unique_rounded(Tail(coords),
                         IF \E k \in 1..Len(unique) : unique[k] = rounded
                           THEN unique ELSE Append(unique, rounded))

MaxOf(S) == CHOOSE x \in S : \A y \in S : y <= x
MinOf(S) == CHOOSE x \in S : \A y \in S : x <= y

\* The radicand of spread: squared extent of the raw coordinates per axis.
spread_radicand(coords) ==
  LET ext(a) == MaxOf({ coords[i][a] : i \in 1..Len(coords) })
                - MinOf({ coords[i][a] : i \in 1..Len(coords) })
  IN ext(1) * ext(1) + ext(2) * ext(2) + ext(3) * ext(3)

\* Variant of stable_of that accepts any number of unique coordinates.
stable_when_any(unique) == Len(unique) >= 1

\* "stable": len(unique) == 1
stable_of(unique) == Len(unique) = 1

\* The jump scan: 0-based index of the first report whose rounded coordinate
\* differs from that of report 0, None when the loop ends without one.
RECURSIVE jump_loop(_, _)
jump_loop(coords, i) ==
  IF i > Len(coords) THEN None
  ELSE IF rounded_coord(coords[i]) # rounded_coord(coords[1]) THEN Some(i - 1)
  ELSE jump_loop(coords, i + 1)

\* Variant of jump_scan that runs the loop to its end and keeps the last
\* differing report.
jump_scan_last(coords) ==
  LET differing == { i \in 2..Len(coords) :
                       rounded_coord(coords[i]) # rounded_coord(coords[1]) }
  IN IF differing = {} THEN None ELSE Some(MaxOf(differing) - 1)

jump_scan(coords) == jump_loop(coords, 2)

\* The radicand of jump_dist for report i (0-based).
jump_radicand(coords, i) ==
  LET d(a) == coords[i + 1][a] - coords[1][a]
  IN d(1) * d(1) + d(2) * d(2) + d(3) * d(3)

\* _detect_position_change.  spread_sq and jump_distance_sq hold the
\* arguments of math.sqrt; a key the dict does not have is None.
detect_position_change(ps) ==
  LET coords == pos_coords(ps)
      unique == unique_rounded(coords, <<>>)
      jump == IF Len(unique) > 1 THEN jump_scan(coords) ELSE None
  IN IF coords = <<>>
       THEN [stable |-> TRUE, unique_count |-> 0, spread_sq |-> 0, num_reports |-> 0,
             jump_index |-> None, jump_distance_sq |-> None]
       ELSE [stable |-> stable_of(unique), unique_count |-> Len(unique),
             spread_sq |-> spread_radicand(coords), num_reports |-> Len(coords),
             jump_index |-> jump,
             jump_distance_sq |-> IF jump = None THEN None
                                  ELSE Some(jump_radicand(coords, Val(jump)))]

\* Reports tried: a point, the same point 0.04 mm and 0.06 mm further along
\* x, the point mirrored to a negative z, and the point with one or all
\* coordinates absent.
PosReports ==
  { process_position(PositionMsg("1005", Some(7), x, Some(200), Some(300), None), "1005")
      : x \in {Some(100), Some(104), Some(106), None} }
  \cup { process_position(PositionMsg("1006", Some(7), Some(100), y, z, Some(15)), "1006")
           : y \in {Some(200), None}, z \in {Some(-296), None} }

RECURSIVE ListsUpTo(_, _)
ListsUpTo(S, n) ==
  IF n = 0 THEN {<<>>}
  ELSE LET shorter == ListsUpTo(S, n - 1)
       IN shorter \cup { Append(l, x) : l \in { m \in shorter : Len(m) = n - 1 }, x \in S }

PosInit ==
  /\ ParseIdle
  /\ MainIdle
  /\ SyncIdle
  /\ epoch_keys = <<>>
  /\ gaps = None
  /\ positions \in ListsUpTo(PosReports, MaxReports)
  /\ pos_info = None

\* pos_info = _detect_position_change(parse_result.positions)
DetectPositionChange ==
  /\ pc = "call"
  /\ pos_info = None
  /\ pos_info' = Some(detect_position_change(positions))
  /\ pc' = "returned"
  /\ UNCHANGED <<sync_vars, filepath, main_vars, epoch_keys, gaps,
                 file_date, gps_day, epochs, positions, message_counts,
                 total_messages, lock_history, glo_day_count, last_glo_utc_sod,
                 rows, reader_log, now, ticked>>

PosNext == DetectPositionChange

PosSpec == PosInit /\ [][PosNext]_vars

\* --------------------------------------------------------- text reporters
\* A print is held as [to, line]: the stream and the fixed text of the
\* line (its label); the numbers formatted into a line are left out unless
\* an entry names them.
Out(line) == [to |-> "stdout", line |-> line]
Err(line) == [to |-> "stderr", line |-> line]

NoEpochsLine == "No observation epochs found."
DetailNoEpochsLine == "  No observation epochs found."

\* Variant of no_epochs that tests the messages instead of the epochs.
no_messages(eps, counts) == DOMAIN counts = {}

\* `if num_epochs == 0:` of both reporters
no_epochs(eps, counts) == Len(eps) = 0

\* The observations of every epoch with `obs.cn0 > 0` (all_cn0 is not empty).
has_cn0(eps) ==
  \E i \in 1..Len(eps) : \E k \in 1..Len(eps[i].observations) :
    eps[i].observations[k].cn0 > 0

\* The "Position" block of print_compact_summary.
compact_position(ps) ==
  IF ps = <<>> THEN <<>>
  ELSE LET pos == ps[1]
           pos_result == detect_position_change(ps)
       IN <<Out("Position (Station):")>>
          \o (IF has_coords(pos) THEN <<Out("lat lon height (HAE)")>> ELSE <<>>)
          \o (IF pos.antenna_height # None THEN <<Out("Antenna height:")>> ELSE <<>>)
          \o (IF pos_result.num_reports > 0
                THEN (IF pos_result.stable THEN <<Out("STABLE")>> ELSE <<Out("MOVED")>>)
                ELSE <<>>)

\* print_compact_summary: the lines it prints, in order.
print_compact_summary(eps, ps, counts, path, output_path) ==
  LET fdate == parse_filename_timestamp(path)
  IN <<Out("=== Base Station Health Report ==="), Out("File:")>>
     \o (IF fdate # None /\ Len(eps) >= 2 THEN <<Out("Date: span")>>
         ELSE IF fdate # None THEN <<Out("Date:")>> ELSE <<>>)
     \o compact_position(ps)
     \o (IF no_epochs(eps, counts) THEN <<Out(NoEpochsLine)>>
         ELSE <<Out("Tracking:")>>
              \o (IF has_cn0(eps) THEN <<Out("Signal:")>> ELSE <<>>)
              \o <<Out("Phase:"), Out("Data:")>>
              \o (IF output_path # None THEN <<Out("Output:")>> ELSE <<>>)
              \o <<Out("")>>)

\* int(x) of the identities the inputs use.
IdentityInt ==
  [id \in {"1001", "1002", "1003", "1004", "1005", "1006", "1009", "1010", "1011",
           "1012", "1013", "1077", "1087", "1097", "1127", "1230"} |->
     CASE id = "1001" -> 1001 [] id = "1002" -> 1002 [] id = "1003" -> 1003
       [] id = "1004" -> 1004 [] id = "1005" -> 1005 [] id = "1006" -> 1006
       [] id = "1009" -> 1009 [] id = "1010" -> 1010 [] id = "1011" -> 1011
       [] id = "1012" -> 1012 [] id = "1013" -> 1013 [] id = "1077" -> 1077
       [] id = "1087" -> 1087 [] id = "1097" -> 1097 [] id = "1127" -> 1127
       [] id = "1230" -> 1230]

\* The inventory loop: one line per message type,
\* sorted(parse_result.message_counts, key=lambda x: int(x)).
inventory_lines(counts) ==
  LET order == SortedSeq({ IdentityInt[id] : id \in DOMAIN counts })
  IN [i \in 1..Len(order) |->
        Out(CHOOSE id \in DOMAIN counts : IdentityInt[id] = order[i])]

\* print_detail_summary: the lines it prints up to the epoch test, then
\* either the no-epochs line or the header of each section that follows.
print_detail_summary(eps, ps, counts, path, output_path) ==
  LET fdate == parse_filename_timestamp(path)
  IN <<Out("=================================================="),
       Out("  RTCM3 Base Station Health Report"),
       Out("=================================================="),
       Out("  File:")>>
     \o (IF fdate # None THEN <<Out("  Date:")>> ELSE <<>>)
     \o <<Out(""), Out("--- Message Inventory ---"), Out("  Total messages:")>>
     \o inventory_lines(counts)
     \o <<Out("")>>
     \o (IF no_epochs(eps, counts) THEN <<Out(DetailNoEpochsLine)>>
         ELSE <<Out("--- Satellite Tracking ---"), Out("--- Signal Quality ---"),
                Out("--- Carrier Phase Health ---"),
                Out("--- Observation Completeness ---"), Out("--- Base Position ---")>>
              \o (IF output_path # None THEN <<Out("Output:")>> ELSE <<>>))

\* --------------------------------------------------------- status document
\* build_status_json (sync_emlid_logs.py).  A timestamp is held as
\* gws_to_timestamp returns it (None stays None through
\* _format_gnss_timestamp); position holds the verdict and whether the last
\* report converts, not the geodetic values; generated_utc is left out.
build_status_json(eps, ps, path) ==
  LET fdate == parse_filename_timestamp(path)
      day == IF fdate # None THEN gps_day_of_week(Val(fdate)) ELSE 0
      keys == row_order(eps)
      totals == { total_sats_of(sat_counts_for_epoch(eps[i])) : i \in 1..Len(eps) }
      found == detect_data_gaps(keys)
  IN [file |-> basename(path),
      time_span |->
        IF keys # <<>>
          THEN [start |-> gws_to_timestamp(keys[1], fdate, day),
                end |-> gws_to_timestamp(keys[Len(keys)], fdate, day),
                duration_sec |-> keys[Len(keys)] - keys[1]]
          ELSE [start |-> None, end |-> None, duration_sec |-> 0],
      position |->
        IF ps # <<>> /\ has_coords(ps[1])
          THEN Some([status |-> IF detect_position_change(ps).stable
                                  THEN "STABLE" ELSE "MOVED",
                     spread_sq |-> detect_position_change(ps).spread_sq,
                     position_final |-> has_coords(ps[Len(ps)])])
          ELSE None,
      satellites |->
        IF keys # <<>> THEN [min |-> MinOf(totals), max |-> MaxOf(totals)]
        ELSE [min |-> 0, max |-> 0],
      outages |->
        [i \in 1..Len(found) |->
           [start |-> gws_to_timestamp(found[i].start_gws, fdate, day),
            end |-> gws_to_timestamp(found[i].end_gws, fdate, day)]]]

\* -------------------------------------------------------------------- main
\* Messages the reader yields in one run of main or of the status report.
MaxRunMsgs == 1

\* os.path.splitext(name)[0]: the name up to its last "." (a leading "."
\* is part of the stem).
splitext_stem(name) ==
  LET dots == { i \in 2..Len(name) : name[i] = "." }
  IN IF dots = {} THEN name ELSE SubSeq(name, 1, MaxOf(dots) - 1)

\* "reports/" stands for reports_dir, the directory next to src/.
ReportsDirChars == <<"r", "e", "p", "o", "r", "t", "s", "/">>
SummarySuffixChars == <<"_", "s", "u", "m", "m", "a", "r", "y", ".", "c", "s", "v">>

\* output_path as main computes it before the parse.
main_output_path(a, path) ==
  IF a.output # None THEN Val(a.output)
  ELSE ReportsDirChars \o splitext_stem(basename(path)) \o SummarySuffixChars

fieldnames ==
  <<"epoch_time_gws", "timestamp", "gps_sats", "glonass_sats", "galileo_sats",
    "beidou_sats", "total_sats", "mean_snr", "min_snr", "low_snr_count", "cycle_slips">>

\* write_csv: the files after the call (nothing is opened for no rows).
write_csv(files, rs, output_path) ==
  IF rs = <<>> THEN files
  ELSE [q \in DOMAIN files \cup {output_path} |->
          IF q = output_path THEN [header |-> fieldnames, rows |-> rs] ELSE files[q]]

\* Command lines tried: with and without --output, --summary-only, --detail.
MainArgs ==
  { [output |-> o, summary_only |-> so, detail |-> d] :
      o \in {None, Some(<<"o", "u", "t", ".", "c", "s", "v">>)},
      so \in BOOLEAN, d \in BOOLEAN }

\* A run starts in main (args parsed, nothing else done), or in sync_logs at
\* its call of parse_rtcm3 (args = None).  The path is or is not a regular
\* file; no output file and no reports directory exist yet.
RunInit ==
  /\ filepath \in FilePaths
  /\ \/ /\ args \in { Some(a) : a \in MainArgs }
        /\ fs \in { Some([is_file |-> f, reports_dir |-> FALSE,
                          files |-> [q \in {} |-> 0]]) : f \in BOOLEAN }
        /\ pc = "main"
        /\ file_date = None
        /\ gps_day = 0
     \/ /\ args = None
        /\ fs = None
        /\ pc = "parse"
        /\ file_date = parse_filename_timestamp(filepath)
        /\ gps_day = IF file_date # None THEN gps_day_of_week(Val(file_date)) ELSE 0
  /\ exit_code = None
  /\ printed = <<>>
  /\ status_json = None
  /\ FnIdle
  /\ SyncIdle
  /\ epochs = <<>>
  /\ positions = <<>>
  /\ message_counts = [k \in {} |-> 0]
  /\ total_messages = 0
  /\ lock_history = [k \in {} |-> 0]
  /\ glo_day_count = 0
  /\ last_glo_utc_sod = None
  /\ rows = <<>>
  /\ reader_log = <<>>
  /\ now = 0
  /\ ticked = FALSE

\* Variant of isfile that takes any path for a regular file.
isfile_always(f, path) == TRUE

\* os.path.isfile(filepath)
isfile(f, path) == f.is_file

\* main, lines 884-887: the path is not a regular file.
MainNotAFile ==
  /\ pc = "main"
  /\ ~isfile(Val(fs), filepath)
  /\ printed' = Append(printed, Err("Error: file not found:"))
  /\ exit_code' = Some(1)
  /\ pc' = "exit"
  /\ UNCHANGED <<sync_vars, filepath, args, fs, status_json, fn_vars,
                 file_date, gps_day, epochs, positions, message_counts,
                 total_messages, lock_history, glo_day_count, last_glo_utc_sod,
                 rows, reader_log, now, ticked>>

\* main, lines 884-902, for a regular file: the reports directory is made
\* when no --output is given, the file-name date is read, "Parsing ..." is
\* printed and parse_rtcm3 is entered.
MainStart ==
  /\ pc = "main"
  /\ isfile(Val(fs), filepath)
  /\ fs' = IF Val(args).output = None
             THEN Some([Val(fs) EXCEPT !.reports_dir = TRUE]) ELSE fs
  /\ file_date' = parse_filename_timestamp(filepath)
  /\ gps_day' = IF parse_filename_timestamp(filepath) # None
                  THEN gps_day_of_week(Val(parse_filename_timestamp(filepath))) ELSE 0
  /\ printed' = Append(printed, Out("Parsing ..."))
  /\ pc' = "parse"
  /\ UNCHANGED <<sync_vars, filepath, args, exit_code, status_json, fn_vars,
                 epochs, positions, message_counts,
                 total_messages, lock_history, glo_day_count, last_glo_utc_sod,
                 rows, reader_log, now, ticked>>

\* One message of the reader loop inside a run.
RunMsg ==
  /\ msgs_read < MaxRunMsgs
  /\ \/ MsgNone
     \/ MsgOther
     \/ MsgMsm7
     \/ MsgLegacyGps
     \/ MsgLegacyGlonass
     \/ MsgPosition

\* main, lines 902-914: parse_rtcm3 has returned; rows and CSV unless
\* --summary-only, then the reporter chosen by --detail; main returns.
MainFinish ==
  /\ pc = "parse"
  /\ args # None
  /\ LET a == Val(args)
         path == main_output_path(a, filepath)
         rs == build_epoch_rows(epochs, file_date, gps_day)
         output_path == IF a.summary_only THEN None ELSE Some(path)
         wrote == IF a.summary_only THEN <<>>
                  ELSE <<[to |-> "stdout", line |-> "Wrote rows to",
                          n |-> Len(rs), path |-> path]>>
         report == IF a.detail
                     THEN print_detail_summary(epochs, positions, message_counts,
                                               filepath, output_path)
                     ELSE print_compact_summary(epochs, positions, message_counts,
                                                filepath, output_path)
     IN /\ rows' = IF a.summary_only THEN rows ELSE rs
        /\ fs' = IF a.summary_only THEN fs
                 ELSE Some([Val(fs) EXCEPT !.files = write_csv(@, rs, path)])
        /\ printed' = printed \o wrote \o report
  /\ exit_code' = Some(0)
  /\ pc' = "exit"
  /\ UNCHANGED <<sync_vars, filepath, args, status_json, fn_vars,
                 file_date, gps_day, epochs, positions, message_counts,
                 total_messages, lock_history, glo_day_count, last_glo_utc_sod,
                 reader_log, now, ticked>>

\* sync_logs: pr = parse_rtcm3(path) has returned;
\* status = build_status_json(pr, path).
StatusReport ==
  /\ pc = "parse"
  /\ args = None
  /\ status_json' = Some(build_status_json(epochs, positions, filepath))
  /\ pc' = "status"
  /\ UNCHANGED <<sync_vars, filepath, args, fs, exit_code, printed, fn_vars,
                 file_date, gps_day, epochs, positions, message_counts,
                 total_messages, lock_history, glo_day_count, last_glo_utc_sod,
                 rows, reader_log, now, ticked>>

RunNext ==
  \/ MainNotAFile
  \/ MainStart
  \/ RunMsg
  \/ MainFinish
  \/ StatusReport

RunSpec == RunInit /\ [][RunNext]_vars

\* -------------------------------------------- carrier phase health section
\* total_slips = sum(epochs[k].cycle_slips for k in epoch_keys)
RECURSIVE total_slips(_, _)
total_slips(eps, keys) ==
  IF keys = <<>> THEN 0
  ELSE eps[EpochIndex(eps, Head(keys))].cycle_slips + total_slips(eps, Tail(keys))

\* Body of `for obs in epoch.observations` of _print_slip_details, on
\* acc = [lock_hist, slip_by_sat].
replay_obs(acc, obs) ==
  LET key == <<obs.prn, obs.signal>>
      slip == /\ key \in DOMAIN acc.lock_hist
              /\ acc.lock_hist[key] > 10
              /\ obs.lock_time <= LEGACY_LOCK_SLIP_THRESHOLD
  IN [lock_hist |-> IF key \in DOMAIN acc.lock_hist
                      THEN [acc.lock_hist EXCEPT ![key] = obs.lock_time]
                    ELSE acc.lock_hist @@ (key :> obs.lock_time),
      slip_by_sat |-> IF ~slip THEN acc.slip_by_sat
                      ELSE IF obs.prn \in DOMAIN acc.slip_by_sat
                        THEN [acc.slip_by_sat EXCEPT ![obs.prn] = @ + 1]
                      ELSE acc.slip_by_sat @@ (obs.prn :> 1)]

RECURSIVE replay_observations(_, _)
replay_observations(acc, obs) ==
  IF obs = <<>> THEN acc
  ELSE replay_observations(replay_obs(acc, Head(obs)), Tail(obs))

\* `for k in epoch_keys` of _print_slip_details
RECURSIVE replay_epochs(_, _, _)
replay_epochs(acc, eps, keys) ==
  IF keys = <<>> THEN acc
  ELSE replay_epochs(
         replay_observations(acc, eps[EpochIndex(eps, Head(keys))].observations),
         eps, Tail(keys))

\* _print_slip_details: slip_by_sat after the replay.
slip_by_sat(eps, keys) ==
  replay_epochs([lock_hist |-> <<>>, slip_by_sat |-> <<>>], eps, keys).slip_by_sat


\* =============================================================== sync_logs
\* File names are Python strs, held as tuples of characters.
ZipExtChars == <<".", "z", "i", "p">>
Rtcm3ExtChars == <<".", "R", "T", "C", "M", "3">>
BaseInfixChars == <<"_", "b", "a", "s", "e", "_">>
BaseSuffixChars == <<"_", "b", "a", "s", "e", ".", "R", "T", "C", "M", "3">>
StatusSuffixChars == <<".", "s", "t", "a", "t", "u", "s", ".", "j", "s", "o", "n">>

\* s.replace(old, ""): every occurrence of old, left to right, is dropped.
RECURSIVE str_remove(_, _)
str_remove(s, old) ==
  IF s = <<>> THEN <<>>
  ELSE IF Len(s) >= Len(old) /\ SubSeq(s, 1, Len(old)) = old
    THEN str_remove(SubSeq(s, Len(old) + 1, Len(s)), old)
  ELSE <<Head(s)>> \o str_remove(Tail(s), old)

\* predict_rtcm3_name: "_base" goes in before the last "_"-separated part
\* of the name without ".zip", or at its end when it has no "_".
predict_rtcm3_name(zname) ==
  LET base_name == str_remove(zname, ZipExtChars)
      unders == { i \in 1..Len(base_name) : base_name[i] = "_" }
  IN IF unders # {}
       THEN SubSeq(base_name, 1, MaxOf(unders) - 1) \o BaseInfixChars
            \o SubSeq(base_name, MaxOf(unders) + 1, Len(base_name)) \o Rtcm3ExtChars
     ELSE base_name \o BaseSuffixChars

\* extract_dir = temp_dir / zip_name.replace(".zip", "")
extract_dir_of(zname) == str_remove(zname, ZipExtChars)

\* name.upper().endswith(".RTCM3")
is_rtcm3(name) ==
  /\ Len(name) >= Len(ExtensionChars)
  /\ \A i \in 1..Len(ExtensionChars) :
       name[Len(name) - Len(ExtensionChars) + i] \in ExtensionChars[i]

\* rtcm3_file.stem + ".status.json"
status_json_name(name) == splitext_stem(name) \o StatusSuffixChars

\* a name extract_dir.glob("*.status.json") matches
is_status_json(name) ==
  /\ Len(name) >= Len(StatusSuffixChars)
  /\ SubSeq(name, Len(name) - Len(StatusSuffixChars) + 1, Len(name)) = StatusSuffixChars

\* The archives tried: one whose RTCM3 member has the predicted name, one
\* whose member has another name (and a lower-case extension), one with no
\* RTCM3 member.  Their names are in sorted order.
Archive(name, members) == [name |-> name, members |-> members]
ZipA == Archive(<<"B", "_", "7", ".", "z", "i", "p">>, <<<<"B", "_", "b", "a", "s", "e", "_", "7", ".", "R", "T", "C", "M", "3">>>>)
ZipB == Archive(<<"c", ".", "z", "i", "p">>, <<<<"c", ".", "r", "t", "c", "m", "3">>>>)
ZipE == Archive(<<"e", ".", "z", "i", "p">>, <<<<"e", ".", "t", "x", "t">>>>)
Devices == { <<>>, <<ZipA>>, <<ZipA, ZipB>>, <<ZipB, ZipE>> }

\* Command lines and options tried.
SyncOptions ==
  { [dry_run |-> d, limit |-> l, delete_after_upload |-> del] :
      d \in BOOLEAN, l \in {0, 1}, del \in BOOLEAN }

\* Failures of the device, of gcloud and of the status report in one behaviour.
MaxFaults == 2


\* The analyzer's own state, which sync_logs leaves alone here: the status
\* report it calls is taken by its outcome (written, or failed and logged).
analyzer_vars == <<file_date, gps_day, epochs, positions, message_counts,
                   total_messages, lock_history, glo_day_count, last_glo_utc_sod,
                   pc, rows, reader_log, now, ticked, filepath, main_vars, fn_vars>>

\* One entry of the run's history.
Did(op, zname, name) == [op |-> op, zip |-> zname, file |-> name]

\* A step in which the device, gcloud or the status report fails, and one in
\* which nothing does.
Fault == faults < MaxFaults /\ faults' = faults + 1
NoFault == UNCHANGED faults

SyncInit ==
  /\ ParseIdle
  /\ positions = <<>>
  /\ MainIdle
  /\ FnIdle
  /\ options \in SyncOptions
  /\ device \in Devices
  /\ gcs = [n \in {} |-> 0]
  /\ local_zips = {}
  /\ extract_dirs = [z \in {} |-> {}]
  /\ dry_run_dir = {}
  /\ temp_dir = FALSE
  /\ existing_files = {}
  /\ sftp = FALSE
  /\ ssh = FALSE
  /\ ssh_conn = "none"
  /\ sftp_conn = "none"
  /\ zip_files = <<>>
  /\ zip_name = None
  /\ rtcm3_files = <<>>
  /\ todo_files = <<>>
  /\ sync_pc = "idle"
  /\ raised = FALSE
  /\ faults = 0
  /\ sync_log = <<>>

\* An exception leaves the try block for the finally block.
Raise ==
  /\ raised' = TRUE
  /\ sync_pc' = "finally"

\* sync_logs, lines 268-276: temp_dir is made and list_gcs_files returns the
\* names in GCS.
SyncStart ==
  /\ sync_pc = "idle"
  /\ temp_dir' = TRUE
  /\ existing_files' = DOMAIN gcs
  /\ sync_pc' = "connect"
  /\ NoFault
  /\ UNCHANGED <<options, device, gcs, local_zips, extract_dirs, dry_run_dir,
                 conn_vars, zip_files, zip_name, rtcm3_files, todo_files, raised,
                 sync_log, analyzer_vars>>

\* list_gcs_files, lines 173-175: `gcloud storage ls` returns non-zero and
\* the empty set is returned.
SyncStartListFailed ==
  /\ sync_pc = "idle"
  /\ temp_dir' = TRUE
  /\ existing_files' = {}
  /\ sync_pc' = "connect"
  /\ Fault
  /\ UNCHANGED <<options, device, gcs, local_zips, extract_dirs, dry_run_dir,
                 conn_vars, zip_files, zip_name, rtcm3_files, todo_files, raised,
                 sync_log, analyzer_vars>>

\* connect_sftp: ssh.connect and ssh.open_sftp both succeed and the pair is
\* returned to sync_logs.
ConnectSftp ==
  /\ sync_pc = "connect"
  /\ ssh_conn' = "open"
  /\ sftp_conn' = "open"
  /\ sftp' = TRUE
  /\ ssh' = TRUE
  /\ sync_pc' = "list"
  /\ NoFault
  /\ UNCHANGED <<options, device, store_vars, loop_vars, raised, sync_log,
                 analyzer_vars>>

\* connect_sftp: ssh.connect raises; no connection was made.
ConnectFailed ==
  /\ sync_pc = "connect"
  /\ Fault
  /\ Raise
  /\ UNCHANGED <<options, device, store_vars, conn_vars, loop_vars, sync_log,
                 analyzer_vars>>

\* connect_sftp: ssh.connect succeeds and ssh.open_sftp raises; the
\* exception leaves connect_sftp before its return, so sync_logs' sftp and
\* ssh stay None.
OpenSftpFailed ==
  /\ sync_pc = "connect"
  /\ Fault
  /\ ssh_conn' = "open"
  /\ Raise
  /\ UNCHANGED <<options, device, store_vars, sftp, ssh, sftp_conn, loop_vars,
                 sync_log, analyzer_vars>>

\* zip_files[:limit] when limit > 0
limited(zips, limit) ==
  IF limit > 0 /\ limit < Len(zips) THEN SubSeq(zips, 1, limit) ELSE zips

\* sync_logs, lines 280-290: list_remote_zips, the return when there is
\* none, the limit.
ListRemoteZips ==
  /\ sync_pc = "list"
  /\ LET zips == [i \in 1..Len(device) |-> device[i].name]
     IN /\ zip_files' = IF zips = <<>> THEN zip_files ELSE limited(zips, options.limit)
        /\ sync_pc' = IF zips = <<>> THEN "finally" ELSE "zip"
  /\ NoFault
  /\ UNCHANGED <<options, device, store_vars, conn_vars, existing_files, zip_name,
                 rtcm3_files, todo_files, raised, sync_log, analyzer_vars>>

\* list_remote_zips: sftp.listdir raises.
ListRemoteFailed ==
  /\ sync_pc = "list"
  /\ Fault
  /\ Raise
  /\ UNCHANGED <<options, device, store_vars, conn_vars, loop_vars, sync_log,
                 analyzer_vars>>

\* `for zip_name in zip_files` has no ZIP left: the try block ends.
LoopDone ==
  /\ sync_pc = "zip"
  /\ zip_files = <<>>
  /\ sync_pc' = "finally"
  /\ NoFault
  /\ UNCHANGED <<options, device, store_vars, conn_vars, loop_vars, raised,
                 sync_log, analyzer_vars>>

\* `if predicted_name in existing_files`
already_synced(zname, existing) == predict_rtcm3_name(zname) \in existing

\* sync_logs, lines 292-299: the next ZIP is already synced.
SkipZip ==
  /\ sync_pc = "zip"
  /\ zip_files # <<>>
  /\ already_synced(Head(zip_files), existing_files)
  /\ zip_files' = Tail(zip_files)
  /\ sync_log' = Append(sync_log, Did("skip", Head(zip_files), <<>>))
  /\ NoFault
  /\ UNCHANGED <<options, device, store_vars, conn_vars, existing_files, zip_name,
                 rtcm3_files, todo_files, sync_pc, raised, analyzer_vars>>

\* download_zip: sftp.get writes the ZIP into temp_dir.
DownloadZip ==
  /\ sync_pc = "zip"
  /\ zip_files # <<>>
  /\ ~already_synced(Head(zip_files), existing_files)
  /\ zip_name' = Some(Head(zip_files))
  /\ zip_files' = Tail(zip_files)
  /\ local_zips' = local_zips \cup {Head(zip_files)}
  /\ sync_log' = Append(sync_log, Did("download", Head(zip_files), <<>>))
  /\ sync_pc' = "extract"
  /\ NoFault
  /\ UNCHANGED <<options, device, gcs, extract_dirs, dry_run_dir, temp_dir,
                 conn_vars, existing_files, rtcm3_files, todo_files, raised,
                 analyzer_vars>>

\* download_zip: sftp.get raises.
DownloadFailed ==
  /\ sync_pc = "zip"
  /\ zip_files # <<>>
  /\ ~already_synced(Head(zip_files), existing_files)
  /\ zip_name' = Some(Head(zip_files))
  /\ zip_files' = Tail(zip_files)
  /\ Fault
  /\ Raise
  /\ UNCHANGED <<options, device, store_vars, conn_vars, existing_files,
                 rtcm3_files, todo_files, sync_log, analyzer_vars>>

\* The members of the archive of that name.
members_of(zname) ==
  device[CHOOSE i \in 1..Len(device) : device[i].name = zname].members

\* The directory d holding the names in added besides what it held.
with_files(dirs, d, added) ==
  [q \in DOMAIN dirs \cup {d} |->
     IF q = d THEN (IF d \in DOMAIN dirs THEN dirs[d] ELSE {}) \cup added
     ELSE dirs[q]]

\* sync_logs, lines 305-311: extract_dir is made, the RTCM3 members are
\* extracted; a ZIP without one is left where it is.
ExtractRtcm3 ==
  /\ sync_pc = "extract"
  /\ LET zname == Val(zip_name)
         found == SelectSeq(members_of(zname), is_rtcm3)
     IN /\ extract_dirs' = with_files(extract_dirs, extract_dir_of(zname),
                                      { found[i] : i \in 1..Len(found) })
        /\ rtcm3_files' = found
        /\ todo_files' = found
        /\ sync_log' = Append(sync_log, Did("extract", zname, <<>>))
        /\ sync_pc' = IF found = <<>> THEN "zip" ELSE "status"
        /\ zip_name' = IF found = <<>> THEN None ELSE zip_name
  /\ NoFault
  /\ UNCHANGED <<options, device, gcs, local_zips, dry_run_dir, temp_dir, conn_vars,
                 existing_files, zip_files, raised, analyzer_vars>>

\* extract_rtcm3_files raises (not a ZIP file); extract_dir has been made.
ExtractFailed ==
  /\ sync_pc = "extract"
  /\ extract_dirs' = with_files(extract_dirs, extract_dir_of(Val(zip_name)), {})
  /\ Fault
  /\ Raise
  /\ UNCHANGED <<options, device, gcs, local_zips, dry_run_dir, temp_dir, conn_vars,
                 loop_vars, sync_log, analyzer_vars>>

\* sync_logs, lines 314-322: the status document of the next RTCM3 file is
\* written beside it.
StatusWritten ==
  /\ sync_pc = "status"
  /\ todo_files # <<>>
  /\ extract_dirs' = with_files(extract_dirs, extract_dir_of(Val(zip_name)),
                                {status_json_name(Head(todo_files))})
  /\ todo_files' = Tail(todo_files)
  /\ sync_log' = Append(sync_log, Did("status", Val(zip_name), Head(todo_files)))
  /\ NoFault
  /\ UNCHANGED <<options, device, gcs, local_zips, dry_run_dir, temp_dir, conn_vars,
                 existing_files, zip_files, zip_name, rtcm3_files, sync_pc, raised,
                 analyzer_vars>>

\* sync_logs, lines 323-324: the status report raises, the exception is
\* logged and the loop goes on.
StatusFailed ==
  /\ sync_pc = "status"
  /\ todo_files # <<>>
  /\ todo_files' = Tail(todo_files)
  /\ sync_log' = Append(sync_log, Did("status_failed", Val(zip_name), Head(todo_files)))
  /\ Fault
  /\ UNCHANGED <<options, device, store_vars, conn_vars, existing_files, zip_files,
                 zip_name, rtcm3_files, sync_pc, raised, analyzer_vars>>

\* sync_logs, lines 326-332: a dry run copies extract_dir to ./dry_run and
\* goes to the next ZIP.
DryRunCopy ==
  /\ sync_pc = "status"
  /\ todo_files = <<>>
  /\ options.dry_run
  /\ dry_run_dir' = dry_run_dir \cup extract_dirs[extract_dir_of(Val(zip_name))]
  /\ sync_log' = Append(sync_log, Did("dry_run", Val(zip_name), <<>>))
  /\ zip_name' = None
  /\ sync_pc' = "zip"
  /\ NoFault
  /\ UNCHANGED <<options, device, gcs, local_zips, extract_dirs, temp_dir, conn_vars,
                 existing_files, zip_files, rtcm3_files, todo_files, raised,
                 analyzer_vars>>

\* The orders in which a directory listing may hand back the names in S.
Orderings(S) ==
  { q \in [1..Cardinality(S) -> S] : \A i, j \in 1..Cardinality(S) : q[i] = q[j] => i = j }

\* sync_logs, lines 335-340: upload_to_gcs is called with
\* rtcm3_files + json_files.
UploadBegin ==
  /\ sync_pc = "status"
  /\ todo_files = <<>>
  /\ ~options.dry_run
  /\ \E json_files \in Orderings({ n \in extract_dirs[extract_dir_of(Val(zip_name))] :
                                     is_status_json(n) }) :
       todo_files' = rtcm3_files \o json_files
  /\ sync_pc' = "upload"
  /\ NoFault
  /\ UNCHANGED <<options, device, store_vars, conn_vars, existing_files, zip_files,
                 zip_name, rtcm3_files, raised, sync_log, analyzer_vars>>

\* gcloud storage cp: the object is written (once more when it was there).
gcs_cp(objects, name) ==
  [n \in DOMAIN objects \cup {name} |->
     IF n = name THEN (IF name \in DOMAIN objects THEN objects[name] + 1 ELSE 1)
     ELSE objects[n]]

\* upload_to_gcs, lines 239-243: the probe `gcloud storage ls` returns 0 and
\* the file is skipped.
UploadSkip ==
  /\ sync_pc = "upload"
  /\ todo_files # <<>>
  /\ Head(todo_files) \in DOMAIN gcs
  /\ todo_files' = Tail(todo_files)
  /\ sync_log' = Append(sync_log, Did("exists", Val(zip_name), Head(todo_files)))
  /\ NoFault
  /\ UNCHANGED <<options, device, store_vars, conn_vars, existing_files, zip_files,
                 zip_name, rtcm3_files, sync_pc, raised, analyzer_vars>>

\* upload_to_gcs, lines 245-253: the probe returns non-zero (no such object,
\* or the command failed) and `gcloud storage cp` returns 0.
UploadCopy ==
  /\ sync_pc = "upload"
  /\ todo_files # <<>>
  /\ IF Head(todo_files) \in DOMAIN gcs THEN Fault ELSE NoFault
  /\ gcs' = gcs_cp(gcs, Head(todo_files))
  /\ todo_files' = Tail(todo_files)
  /\ sync_log' = Append(sync_log, Did("cp", Val(zip_name), Head(todo_files)))
  /\ UNCHANGED <<options, device, local_zips, extract_dirs, dry_run_dir, temp_dir,
                 conn_vars, existing_files, zip_files, zip_name, rtcm3_files,
                 sync_pc, raised, analyzer_vars>>

\* upload_to_gcs, lines 249-251: the probe returns non-zero for an object
\* that is not there, cp returns non-zero and RuntimeError is raised.
UploadFailed ==
  /\ sync_pc = "upload"
  /\ todo_files # <<>>
  /\ Head(todo_files) \notin DOMAIN gcs
  /\ Fault
  /\ sync_log' = Append(sync_log, Did("cp_failed", Val(zip_name), Head(todo_files)))
  /\ Raise
  /\ UNCHANGED <<options, device, store_vars, conn_vars, loop_vars, analyzer_vars>>

\* Variant of delete_after_upload that deletes whatever the option says.
delete_always(opts) == TRUE

\* `if config["options"]["delete_after_upload"]`
delete_after_upload(opts) == opts.delete_after_upload

\* sync_logs, lines 343-346: upload_to_gcs has returned; the ZIP and its
\* extract_dir are deleted when the option says so.
UploadDone ==
  /\ sync_pc = "upload"
  /\ todo_files = <<>>
  /\ sync_log' = Append(sync_log, Did("uploaded", Val(zip_name), <<>>))
                   \o (IF delete_after_upload(options)
                         THEN <<Did("delete", Val(zip_name), <<>>)>> ELSE <<>>)
  /\ local_zips' = IF delete_after_upload(options)
                     THEN local_zips \ {Val(zip_name)} ELSE local_zips
  /\ extract_dirs' = IF delete_after_upload(options)
                       THEN [q \in DOMAIN extract_dirs \ {extract_dir_of(Val(zip_name))}
                               |-> extract_dirs[q]]
                     ELSE extract_dirs
  /\ zip_name' = None
  /\ sync_pc' = "zip"
  /\ NoFault
  /\ UNCHANGED <<options, device, gcs, dry_run_dir, temp_dir, conn_vars,
                 existing_files, zip_files, rtcm3_files, todo_files, raised,
                 analyzer_vars>>

\* sync_logs, lines 348-357: the finally block; sync_logs then returns or
\* lets the exception go on.
Finally ==
  /\ sync_pc = "finally"
  /\ sftp_conn' = IF sftp THEN "closed" ELSE sftp_conn
  /\ ssh_conn' = IF ssh THEN "closed" ELSE ssh_conn
  /\ temp_dir' = (temp_dir /\ (local_zips # {} \/ DOMAIN extract_dirs # {}))
  /\ sync_pc' = "done"
  /\ NoFault
  /\ UNCHANGED <<options, device, gcs, local_zips, extract_dirs, dry_run_dir,
                 sftp, ssh, loop_vars, raised, sync_log, analyzer_vars>>

\* The script is run again: a new call of sync_logs with the same config
\* over the same device, GCS and local directories.
NextRun ==
  /\ sync_pc = "done"
  /\ existing_files' = {}
  /\ sftp' = FALSE
  /\ ssh' = FALSE
  /\ ssh_conn' = "none"
  /\ sftp_conn' = "none"
  /\ zip_files' = <<>>
  /\ zip_name' = None
  /\ rtcm3_files' = <<>>
  /\ todo_files' = <<>>
  /\ raised' = FALSE
  /\ sync_log' = <<>>
  /\ sync_pc' = "idle"
  /\ NoFault
  /\ UNCHANGED <<options, device, store_vars, analyzer_vars>>

SyncNext ==
  \/ SyncStart
  \/ SyncStartListFailed
  \/ ConnectSftp
  \/ ConnectFailed
  \/ OpenSftpFailed
  \/ ListRemoteZips
  \/ ListRemoteFailed
  \/ LoopDone
  \/ SkipZip
  \/ DownloadZip
  \/ DownloadFailed
  \/ ExtractRtcm3
  \/ ExtractFailed
  \/ StatusWritten
  \/ StatusFailed
  \/ DryRunCopy
  \/ UploadBegin
  \/ UploadSkip
  \/ UploadCopy
  \/ UploadFailed
  \/ UploadDone
  \/ Finally
  \/ NextRun

SyncSpec == SyncInit /\ [][SyncNext]_vars


\* Repeated runs in which every step that can be taken is taken: each call
\* of the device, of gcloud and of the analyzer ends, and the script is run
\* again after each run.  Failures are finitely many.
SyncFairSpec == SyncInit /\ [][SyncNext]_vars /\ WF_vars(SyncNext)

\* ================================================================ claims
\* Observations stored so far, in stream order, each with the identity of
\* the message whose handler appended it.
RECURSIVE StoredFrom(_)
StoredFrom(log) ==
  IF log = <<>> THEN <<>>
  ELSE StoredFrom(SubSeq(log, 1, Len(log) - 1))
       \o [k \in 1..Len(log[Len(log)].stored) |->
             [identity |-> log[Len(log)].identity, obs |-> log[Len(log)].stored[k]]]

StoredStream == StoredFrom(reader_log)

AllObs ==
  UNION { { epochs[i].observations[k] : k \in 1..Len(epochs[i].observations) } :
            i \in 1..Len(epochs) }

TotalCycleSlips == SumSeq([i \in 1..Len(epochs) |-> epochs[i].cycle_slips])

\* Index of the previously stored observation of the same (prn, signal) pair, 0 if none.
PrevStored(stream, i) ==
  LET same == { j \in 1..(i - 1) : /\ stream[j].obs.prn = stream[i].obs.prn
                                   /\ stream[j].obs.signal = stream[i].obs.signal }
  IN IF same = {} THEN 0 ELSE CHOOSE j \in same : \A k \in same : k <= j

\* Stored observations whose predecessor has lock_time > 10 while their own is <= 2.
StoredTransitions(stream) ==
  { i \in 1..Len(stream) :
      /\ PrevStored(stream, i) # 0
      /\ stream[PrevStored(stream, i)].obs.lock_time > 10
      /\ stream[i].obs.lock_time <= 2 }

\* C1: the sum of cycle_slips over all epochs equals the number of stored
\* observations, taken in stream order, whose previously stored observation
\* of the same (prn, signal) pair has lock_time > 10 while their own
\* lock_time is <= 2 (a missing lock field being stored as lock_time 0).
C1_SlipsEqualStoredTransitions ==
  TotalCycleSlips = Cardinality(StoredTransitions(StoredStream))

\* C2: every observation stored in every epoch has cn0 > 0, for MSM7, legacy
\* GPS and legacy GLONASS messages alike.
C2_StoredCn0Positive == \A o \in AllObs : o.cn0 > 0

\* C2 witness: a legacy GPS and a legacy GLONASS message whose L1 band was
\* skipped have both been processed, each leaving only its L2 observation.
C2_Witness ==
  /\ \E i \in 1..Len(epochs) :
       /\ Len(epochs[i].observations) = 1
       /\ epochs[i].observations[1].signal = "L2"
       /\ epochs[i].observations[1].prn[1] = "G"
  /\ \E i \in 1..Len(epochs) :
       /\ Len(epochs[i].observations) = 1
       /\ epochs[i].observations[1].signal = "L2"
       /\ epochs[i].observations[1].prn[1] = "R"

\* C3: every epoch present in ParseResult.epochs holds at least one
\* observation, including after a message with a non-zero cell or satellite
\* count whose cells were all skipped.
C3_EveryEpochHasObservation ==
  \A i \in 1..Len(epochs) : epochs[i].observations # <<>>

\* Occurrences of identity in the reader's history.
Yielded(identity) ==
  Cardinality({ i \in 1..Len(reader_log) : reader_log[i].identity = identity })

CountOf(identity) ==
  IF identity \in DOMAIN message_counts THEN message_counts[identity] ELSE 0

RECURSIVE SumCounts(_, _)
SumCounts(d, keys) ==
  IF keys = {} THEN 0
  ELSE LET k == CHOOSE x \in keys : TRUE IN d[k] + SumCounts(d, keys \ {k})

\* C7: every decoded (non-None) message bumps total_messages and the counter
\* of its own type by exactly one, whether or not its handler aborts or
\* skips, and a None message changes neither: total_messages is the number
\* of decoded messages yielded, each per-type count is the number of
\* messages of that type yielded, and total_messages is the sum of the
\* per-type counts.
C7_CountersMatchMessages ==
  /\ total_messages = Len(reader_log) - Yielded("None")
  /\ \A i \in 1..Len(reader_log) :
       reader_log[i].identity # "None" =>
         CountOf(reader_log[i].identity) = Yielded(reader_log[i].identity)
  /\ \A id \in DOMAIN message_counts : id # "None" /\ Yielded(id) > 0
  /\ total_messages = SumCounts(message_counts, DOMAIN message_counts)

\* C7 witness: a None message and a message whose handler aborted for want
\* of an epoch field have been read; only the latter was counted.
C7_Witness ==
  /\ Len(reader_log) = 2
  /\ Yielded("None") = 1
  /\ \E i \in 1..Len(reader_log) :
       reader_log[i].identity = "1077" /\ reader_log[i].epoch_ms = None
  /\ total_messages = 1
  /\ CountOf("1077") = 1

\* The constellation letter of a message family.
FamilyLetter(identity) ==
  CASE identity \in {"1077", "1001", "1002", "1003", "1004"} -> "G"
    [] identity \in {"1087", "1009", "1010", "1011", "1012"} -> "R"
    [] identity = "1097" -> "E"
    [] identity = "1127" -> "C"
    [] OTHER -> "?"

\* C8: every stored observation has a constellation-prefixed prn: its first
\* character is the letter of the message family that produced it, whatever
\* value type the decoder returns for the PRN field.
C8_PrnCarriesFamilyLetter ==
  \A i \in 1..Len(StoredStream) :
    /\ Len(StoredStream[i].obs.prn) >= 1
    /\ StoredStream[i].obs.prn[1] = FamilyLetter(StoredStream[i].identity)

\* C9: build_epoch_rows returns exactly one row per epoch key, and the
\* rows' epoch_time_gws values are strictly ascending, whatever order the
\* epochs were inserted in during the parse.
C9_RowsOnePerEpochAscending ==
  pc = "rows" =>
    /\ Len(rows) = Cardinality(EpochKeys(epochs))
    /\ { rows[i].epoch_time_gws : i \in 1..Len(rows) } = EpochKeys(epochs)
    /\ \A i \in 1..Len(rows) : \A j \in 1..Len(rows) :
         i < j => rows[i].epoch_time_gws < rows[j].epoch_time_gws

\* C9 witness: rows were built from a parse that inserted a later epoch
\* before an earlier one.
C9_Witness ==
  /\ pc = "rows"
  /\ Len(epochs) = 2
  /\ epochs[1].epoch_gws > epochs[2].epoch_gws
  /\ Len(rows) = 2

\* Distinct PRNs of an epoch whose first character is letter.
PrnsWithPrefix(epoch, letter) ==
  { epoch.observations[k].prn : k \in
      { j \in 1..Len(epoch.observations) :
          /\ Len(epoch.observations[j].prn) >= 1
          /\ epoch.observations[j].prn[1] = letter } }

\* C10: in every row total_sats = gps_sats + glonass_sats + galileo_sats +
\* beidou_sats, each constellation count being the number of distinct PRNs
\* of the epoch that carry the constellation's prefix.
C10_TotalSatsIsSumOfDistinct ==
  pc = "rows" =>
    \A i \in 1..Len(rows) :
      LET epoch == epochs[EpochIndex(epochs, rows[i].epoch_time_gws)]
      IN /\ rows[i].total_sats = rows[i].gps_sats + rows[i].glonass_sats
                                 + rows[i].galileo_sats + rows[i].beidou_sats
         /\ rows[i].gps_sats = Cardinality(PrnsWithPrefix(epoch, "G"))
         /\ rows[i].glonass_sats = Cardinality(PrnsWithPrefix(epoch, "R"))
         /\ rows[i].galileo_sats = Cardinality(PrnsWithPrefix(epoch, "E"))
         /\ rows[i].beidou_sats = Cardinality(PrnsWithPrefix(epoch, "C"))

\* C10 witness: a row of an epoch that holds two constellations, one of
\* whose satellites was observed on two signals.
C10_Witness ==
  /\ pc = "rows"
  /\ \E i \in 1..Len(rows) :
       /\ rows[i].total_sats = 2
       /\ rows[i].gps_sats = 1
       /\ rows[i].beidou_sats = 1
       /\ Len(epochs[EpochIndex(epochs, rows[i].epoch_time_gws)].observations) = 3

\* Entries of the reader's history left by legacy GLONASS messages that
\* carried DF034.
GloEntries ==
  SelectSeq(reader_log, LAMBDA e : e.identity \in LEGACY_GLONASS_TYPES
                                   /\ e.epoch_ms # None)

\* The three DF034 values of scenario S3 were processed, in order, by 1012 messages.
ScenarioS3 ==
  /\ Len(GloEntries) = 3
  /\ \A i \in 1..3 : GloEntries[i].identity = "1012"
  /\ [i \in 1..3 |-> GloEntries[i].epoch_ms]
       = <<Some(80000000), Some(85000000), Some(4000000)>>

C5_GlonassKeysIncrease ==
  \A i \in 1..(Len(GloEntries) - 1) :
    (/\ GloEntries[i + 1].at - GloEntries[i].at >= 1000
     /\ GloEntries[i + 1].at - GloEntries[i].at < 43200 * 1000)
    => Val(GloEntries[i + 1].gws) > Val(GloEntries[i].gws)

\* C5 witness: two consecutive GLONASS messages less than 12 hours apart lie
\* on either side of UTC midnight, and two lie on either side of Moscow
\* midnight (21:00 UTC).
C5_Witness ==
  /\ \E i \in 1..(Len(GloEntries) - 1) :
       /\ GloEntries[i + 1].at - GloEntries[i].at < 43200 * 1000
       /\ GloEntries[i].at < MS_PER_DAY
       /\ GloEntries[i + 1].at >= MS_PER_DAY
       /\ GloEntries[i + 1].day_count = GloEntries[i].day_count + 1
  /\ \E i \in 1..(Len(GloEntries) - 1) :
       /\ GloEntries[i + 1].at - GloEntries[i].at < 43200 * 1000
       /\ GloEntries[i].at < 75600000
       /\ GloEntries[i + 1].at >= 75600000
       /\ Val(GloEntries[i + 1].epoch_ms) < Val(GloEntries[i].epoch_ms)

\* C6: a GPS-time-base message and a legacy GLONASS message that describe
\* the same whole-second instant of the session are bucketed under the same
\* epoch_gws key, for every instant on or after the file-name date at which
\* the detector's day-wrap count is the number of UTC midnights passed
\* since the file-name date, including instants at which the GPS week
\* rolls over.
C6_SameInstantSameKey ==
  \A i \in 1..Len(reader_log) : \A j \in 1..Len(reader_log) :
    (/\ reader_log[i].identity \in LEGACY_GPS_TYPES \cup MSM7_TYPES
     /\ reader_log[j].identity \in LEGACY_GLONASS_TYPES
     /\ reader_log[i].gws # None
     /\ reader_log[j].gws # None
     /\ reader_log[i].stored # <<>>
     /\ reader_log[j].stored # <<>>
     /\ reader_log[j].day_count = reader_log[j].at \div MS_PER_DAY
     /\ reader_log[i].at \div 1000 = reader_log[j].at \div 1000)
    => reader_log[i].gws = reader_log[j].gws

\* C11: for an ascending list of distinct integer keys, detect_data_gaps
\* returns, in order, exactly one entry for each consecutive pair whose
\* difference is > 2 (start_gws the earlier key, end_gws the later key,
\* duration_sec the difference) and nothing else; with fewer than two keys
\* it returns no gaps.
WidePairs(keys) == { i \in 1..(Len(keys) - 1) : keys[i + 1] - keys[i] > 2 }
NthWidePair(keys, n) ==
  CHOOSE i \in WidePairs(keys) : Cardinality({ j \in WidePairs(keys) : j <= i }) = n
C11_GapsAreTheWidePairs ==
  gaps # None =>
    LET g == Val(gaps)
    IN /\ Len(g) = Cardinality(WidePairs(epoch_keys))
       /\ \A n \in 1..Len(g) :
            LET i == NthWidePair(epoch_keys, n)
            IN g[n] = [start_gws |-> epoch_keys[i], end_gws |-> epoch_keys[i + 1],
                       duration_sec |-> epoch_keys[i + 1] - epoch_keys[i]]
       /\ Len(epoch_keys) < 2 => g = <<>>
\* Two gaps reported around a pair exactly 2 apart that is not reported.
C11_Witness ==
  /\ gaps # None
  /\ Len(Val(gaps)) = 2
  /\ \E i \in 2..(Len(epoch_keys) - 2) :
       /\ epoch_keys[i + 1] - epoch_keys[i] = 2
       /\ epoch_keys[i] - epoch_keys[i - 1] > 2
       /\ epoch_keys[i + 2] - epoch_keys[i + 1] > 2

\* Two raw coordinates round to the same fourth decimal: some multiple of
\* 0.0001 m is nearer than 0.00005 m to both.
SameTo4Decimals(a, b) ==
  \E q \in ((a \div 10) - 1)..((a \div 10) + 1) :
    /\ 10 * q - a < 5 /\ a - 10 * q < 5
    /\ 10 * q - b < 5 /\ b - 10 * q < 5
CompleteReports == SelectSeq(positions, has_coords)
ReportsAgree(p, q) ==
  /\ SameTo4Decimals(Val(p.ecef_x), Val(q.ecef_x))
  /\ SameTo4Decimals(Val(p.ecef_y), Val(q.ecef_y))
  /\ SameTo4Decimals(Val(p.ecef_z), Val(q.ecef_z))

\* C12: _detect_position_change returns stable == true if and only if all
\* position reports that have all three ECEF coordinates are identical
\* after rounding each axis to 4 decimals.
C12_StableIffReportsAgree ==
  pos_info # None =>
    (Val(pos_info).stable <=>
       \A i, j \in 1..Len(CompleteReports) :
         ReportsAgree(CompleteReports[i], CompleteReports[j]))
\* Stable with two raw coordinates that differ, an incomplete report between.
C12_Witness ==
  /\ pos_info # None
  /\ Val(pos_info).stable
  /\ Val(pos_info).num_reports = 2
  /\ Len(positions) = 3
  /\ CompleteReports[1].ecef_x # CompleteReports[2].ecef_x

\* C13 as stated: for every list of reports, also one in which no report
\* has all three coordinates, stable == true if and only if
\* unique_count == 1.
C13_StableIffOneUnique ==
  pos_info # None => (Val(pos_info).stable <=> Val(pos_info).unique_count = 1)
\* C13 amended: with at least one complete report, stable == true if and
\* only if unique_count == 1; with none, the result is stable == true
\* with unique_count == 0 and num_reports == 0.
C13_StableIffOneUniqueOrNoReports ==
  pos_info # None =>
    /\ CompleteReports # <<>> =>
         (Val(pos_info).stable <=> Val(pos_info).unique_count = 1)
    /\ CompleteReports = <<>> =>
         /\ Val(pos_info).stable
         /\ Val(pos_info).unique_count = 0
         /\ Val(pos_info).num_reports = 0
\* Reports were given, none complete, and the analyzer has returned.
C13_Witness ==
  /\ pos_info # None
  /\ Len(positions) = 2
  /\ CompleteReports = <<>>
  /\ Val(pos_info).stable

\* The 1005/1006 entries of the reader's history, in the order yielded.
PositionEntries == SelectSeq(reader_log, LAMBDA e : e.identity \in POSITION_TYPES)

\* C14: every 1005 or 1006 message appends exactly one PositionReport, in
\* source order, also when coordinate fields are absent: len(positions) is
\* count('1005') + count('1006'), report i carries the fields of the i-th
\* such message, and a report from a 1005 message has no antenna_height.
C14_OneReportPerStationMessage ==
  /\ Len(positions) = CountOf("1005") + CountOf("1006")
  /\ Len(positions) = Len(PositionEntries)
  /\ \A i \in 1..Len(positions) :
       LET m == Val(PositionEntries[i].msg)
       IN /\ positions[i].station_id = m.DF003
          /\ positions[i].ecef_x = m.DF025
          /\ positions[i].ecef_y = m.DF026
          /\ positions[i].ecef_z = m.DF027
          /\ m.identity = "1005" => positions[i].antenna_height = None
          /\ m.identity = "1006" => positions[i].antenna_height = m.DF028
\* A 1006 with a coordinate absent, then a 1005 that carried a DF028.
C14_Witness ==
  /\ Len(positions) = 2
  /\ positions[1].ecef_y = None /\ positions[1].ecef_x # None
  /\ Val(PositionEntries[2].msg).identity = "1005"
  /\ Val(PositionEntries[2].msg).DF028 # None
  /\ positions[2].antenna_height = None

\* The file name of a path (what follows its last "/") ends in 14 decimal
\* digits followed by ".RTCM3" in either case.
FileName(path) ==
  LET slashes == { i \in 1..Len(path) : path[i] = "/" }
  IN IF slashes = {} THEN path
     ELSE SubSeq(path, (CHOOSE i \in slashes : \A j \in slashes : j <= i) + 1, Len(path))
EndsInStamp(name) ==
  \E k \in 0..Len(name) :
    /\ Len(name) - k = 20
    /\ \A i \in (k + 1)..(k + 14) :
         name[i] \in {"0", "1", "2", "3", "4", "5", "6", "7", "8", "9"}
    /\ SubSeq(name, k + 15, k + 20) \in
         { <<".", r, t, c, m, "3">> :
             r \in {"R", "r"}, t \in {"T", "t"}, c \in {"C", "c"}, m \in {"M", "m"} }
GlonassConversions ==
  SelectSeq(reader_log,
            LAMBDA e : e.identity \in LEGACY_GLONASS_TYPES /\ e.gws # None)

\* C15: when the input file name does not end in a 14-digit timestamp
\* followed by .RTCM3, the parse still completes: gps_day is 0 for every
\* GLONASS conversion (the key is day_count * 86400 + UTC second of day +
\* 18), and every row of build_epoch_rows has an empty timestamp (None
\* here) while its other fields are those of a dated file.
C15_NoStampNoTimestamps ==
  ~EndsInStamp(FileName(filepath)) =>
    /\ gps_day = 0
    /\ \A i \in 1..Len(GlonassConversions) :
         LET e == GlonassConversions[i]
             utc_ms == (Val(e.epoch_ms) + MS_PER_DAY - GLONASS_UTC_OFFSET_MS) % MS_PER_DAY
         IN Val(e.gws) = e.day_count * 86400 + (utc_ms + 18000) \div 1000
    /\ pc = "rows" =>
         /\ Len(rows) = Len(epochs)
         /\ \A i \in 1..Len(rows) :
              /\ rows[i].timestamp = None
              /\ rows[i] = [build_epoch_rows(epochs, Some(0), gps_day)[i]
                              EXCEPT !.timestamp = None]
\* A name with 13 digits: a GLONASS message was converted and rows built.
C15_Witness ==
  /\ ~EndsInStamp(FileName(filepath))
  /\ \E i \in 1..Len(filepath) : filepath[i] = "2"
  /\ Len(GlonassConversions) = 1
  /\ pc = "rows"
  /\ Len(rows) = 2

\* C16: a file that yields zero messages or zero epochs is not an error:
\* with zero messages the ParseResult is empty; with zero epochs
\* build_epoch_rows returns no rows, both text reporters end in their "No
\* observation epochs found" line, main returns normally, and
\* build_status_json gives time_span with null start/end and duration 0,
\* satellites {min 0, max 0} and no outages.
C16_EmptyResultIsNotAnError ==
  /\ total_messages = 0 =>
       epochs = <<>> /\ positions = <<>> /\ DOMAIN message_counts = {}
  /\ epochs = <<>> =>
       LET compact == print_compact_summary(epochs, positions, message_counts,
                                            filepath, None)
           detail == print_detail_summary(epochs, positions, message_counts,
                                          filepath, None)
       IN /\ build_epoch_rows(epochs, file_date, gps_day) = <<>>
          /\ compact[Len(compact)] = Out(NoEpochsLine)
          /\ detail[Len(detail)] = Out(DetailNoEpochsLine)
          /\ (pc = "exit" /\ Val(fs).is_file) =>
               /\ exit_code = Some(0)
               /\ rows = <<>>
               /\ printed[Len(printed)].line \in {NoEpochsLine, DetailNoEpochsLine}
               /\ \A i \in 1..Len(printed) : printed[i].to = "stdout"
          /\ pc = "status" =>
               /\ Val(status_json).time_span
                    = [start |-> None, end |-> None, duration_sec |-> 0]
               /\ Val(status_json).satellites = [min |-> 0, max |-> 0]
               /\ Val(status_json).outages = <<>>
\* main has returned after a parse that counted a station message and made
\* no epoch; the detail reporter ran.
C16_Witness ==
  /\ pc = "exit"
  /\ exit_code = Some(0)
  /\ total_messages = 1
  /\ positions # <<>>
  /\ epochs = <<>>
  /\ Val(args).detail
  /\ printed[Len(printed)] = Out(DetailNoEpochsLine)

\* C17: when the input path is not a regular file, main exits with a
\* non-zero code before anything else happens: no parse is started, no
\* reports directory is created and no CSV is written.
C17_NotAFileExitsAtOnce ==
  (args # None /\ ~Val(fs).is_file) =>
    /\ pc \in {"main", "exit"}
    /\ pc = "exit" => (exit_code # None /\ Val(exit_code) # 0)
    /\ reader_log = <<>> /\ total_messages = 0 /\ epochs = <<>> /\ rows = <<>>
    /\ ~Val(fs).reports_dir
    /\ DOMAIN Val(fs).files = {}
    /\ \A i \in 1..Len(printed) : printed[i].to = "stderr"
\* main has exited with code 1 on a run without --output, which would have
\* made the reports directory.
C17_Witness ==
  /\ args # None
  /\ ~Val(fs).is_file
  /\ Val(args).output = None
  /\ ~Val(args).summary_only
  /\ pc = "exit"
  /\ exit_code = Some(1)
  /\ printed = <<Err("Error: file not found:")>>

\* The observations one yielded message has appended, in order, with the
\* lock value as the message carried it (None when absent): read off the
\* message fields as the three handlers read them.
RECURSIVE CellLocks(_, _)
CellLocks(cells, prefix) ==
  IF cells = <<>> THEN <<>>
  ELSE LET c == Head(cells)
           here == IF c.CELLPRN = None \/ c.DF408 = None \/ Val(c.DF408) <= 0
                     THEN <<>>
                   ELSE <<[prn |-> msm7_prn(prefix, Val(c.CELLPRN)),
                           signal |-> c.CELLSIG, lock |-> c.DF407]>>
       IN here \o CellLocks(Tail(cells), prefix)
RECURSIVE SatLocks(_, _, _)
SatLocks(sats, letter, has_l2) ==
  IF sats = <<>> THEN <<>>
  ELSE LET s == Head(sats)
           prn == <<letter>> \o Pad02(Val(s.prn))
           l1 == IF s.l1_cn0 # None /\ Val(s.l1_cn0) > 0
                   THEN <<[prn |-> prn, signal |-> "L1", lock |-> s.l1_lock]>>
                 ELSE <<>>
           l2 == IF has_l2 /\ s.l2_cn0 # None /\ Val(s.l2_cn0) > 0
                   THEN <<[prn |-> prn, signal |-> "L2", lock |-> s.l2_lock]>>
                 ELSE <<>>
       IN (IF s.prn = None THEN <<>> ELSE l1 \o l2)
            \o SatLocks(Tail(sats), letter, has_l2)
MessageLocks(entry) ==
  CASE entry.identity \in MSM7_TYPES ->
         IF Val(entry.msg).DF004 = None THEN <<>>
         ELSE CellLocks(Val(entry.msg).cells, msm7_prefix(entry.identity))
    [] entry.identity \in LEGACY_GPS_TYPES ->
         IF Val(entry.msg).epoch_ms = None THEN <<>>
         ELSE SatLocks(Val(entry.msg).sats, "G",
                       entry.identity \in LEGACY_GPS_L2_TYPES)
    [] entry.identity \in LEGACY_GLONASS_TYPES ->
         IF Val(entry.msg).epoch_ms = None THEN <<>>
         ELSE SatLocks(Val(entry.msg).sats, "R",
                       entry.identity \in LEGACY_GLONASS_L2_TYPES)
    [] OTHER -> <<>>
\* Every observation with a present lock value processed so far, in
\* processing order, with the key of the epoch it was appended to.
RECURSIVE LockStreamFrom(_)
LockStreamFrom(i) ==
  IF i > Len(reader_log) THEN <<>>
  ELSE LET obs == MessageLocks(reader_log[i])
           Present(o) == o.lock # None
           present == SelectSeq(obs, Present)
       IN [k \in 1..Len(present) |->
             [gws |-> Val(reader_log[i].gws), prn |-> present[k].prn,
              signal |-> present[k].signal, lock |-> Val(present[k].lock)]]
          \o LockStreamFrom(i + 1)
LockStream == LockStreamFrom(1)
SamePair(a, b) == a.prn = b.prn /\ a.signal = b.signal
\* Observation k of the stream is a slip: its pair was observed before, the
\* last of those observations had a lock value > 10, and its own is <= 2.
SlipAt(s, k) ==
  /\ s[k].lock <= 2
  /\ \E j \in 1..(k - 1) :
       /\ SamePair(s[j], s[k])
       /\ \A m \in (j + 1)..(k - 1) : ~SamePair(s[m], s[k])
       /\ s[j].lock > 10
SlipsOfEpoch(gws) ==
  Cardinality({ k \in 1..Len(LockStream) :
                  LockStream[k].gws = gws /\ SlipAt(LockStream, k) })

\* C19: an observation with a present lock value v <= 2 whose (prn, signal)
\* pair last stored a lock value > 10 adds exactly one to the cycle_slips of
\* the epoch it is appended to and to no other epoch's; nothing else adds to
\* a counter.  So each epoch's cycle_slips is the number of such
\* observations appended to it: the first observation of a pair is never
\* one, and the L1 and L2 bands of a satellite are separate pairs.
\* The stored value of a pair is the lock value of its last observation that
\* carried one.
C19_SlipsCountLockDrops ==
  /\ \A i \in 1..Len(epochs) :
       epochs[i].cycle_slips = SlipsOfEpoch(epochs[i].epoch_gws)
  /\ \A i \in 1..Len(reader_log) :
       Len(MessageLocks(reader_log[i])) = Len(reader_log[i].stored)
  /\ DOMAIN lock_history
       = { <<LockStream[k].prn, LockStream[k].signal>> : k \in 1..Len(LockStream) }
  /\ \A k \in 1..Len(LockStream) :
       lock_history[<<LockStream[k].prn, LockStream[k].signal>>]
         = LockStream[CHOOSE j \in k..Len(LockStream) :
                        /\ SamePair(LockStream[j], LockStream[k])
                        /\ \A m \in (j + 1)..Len(LockStream) :
                             ~SamePair(LockStream[m], LockStream[k])].lock
\* A 1002 message stored lock 11 for the L1 band of G12 in a first epoch; a
\* 1004 message then brought lock 2 on both bands into a second epoch: the
\* L1 drop is the one slip, counted in the second epoch only, and the L2
\* band, observed for the first time, is none.
C19_Witness ==
  /\ Len(reader_log) = 2
  /\ reader_log[1].identity = "1002"
  /\ reader_log[2].identity = "1004"
  /\ Len(epochs) = 2
  /\ epochs[1].cycle_slips = 0
  /\ epochs[2].cycle_slips = 1
  /\ Len(LockStream) = 3
  /\ SlipAt(LockStream, 2)
  /\ ~SlipAt(LockStream, 3)
  /\ LockStream[3].signal = "L2" /\ LockStream[3].lock <= 2

\* The step is one iteration of the reader loop; the identity of the message
\* it processed ("None" for a None message).
MessageStep == Len(reader_log') = Len(reader_log) + 1
StepIdentity == reader_log'[Len(reader_log')].identity
ObservationTypes == MSM7_TYPES \cup LEGACY_GPS_TYPES \cup LEGACY_GLONASS_TYPES
DispatchTable == ObservationTypes \cup POSITION_TYPES
FamilyFrame ==
  /\ MessageStep =>
       /\ StepIdentity \notin DispatchTable =>
            /\ UNCHANGED <<epochs, positions, lock_history, glo_day_count,
                           last_glo_utc_sod, file_date, gps_day, rows>>
            /\ StepIdentity # "None" =>
                 /\ total_messages' = total_messages + 1
                 /\ message_counts' = DictIncr(message_counts, StepIdentity)
       /\ StepIdentity \in POSITION_TYPES =>
            /\ UNCHANGED <<epochs, lock_history, glo_day_count, last_glo_utc_sod>>
            /\ Len(positions') = Len(positions) + 1
       /\ StepIdentity \in ObservationTypes => UNCHANGED positions
       /\ StepIdentity \notin LEGACY_GLONASS_TYPES =>
            UNCHANGED <<glo_day_count, last_glo_utc_sod>>
       /\ glo_day_count' \in {glo_day_count, glo_day_count + 1}
  /\ ~MessageStep => UNCHANGED <<glo_day_count, last_glo_utc_sod>>

\* C20: each message changes only the state of its own family.  A message of
\* a type outside the dispatch table changes nothing but the two counters; a
\* 1005/1006 message leaves epochs, lock history and the GLONASS day state
\* unchanged; an observation message leaves positions unchanged; the
\* GLONASS day-wrap count and last UTC second-of-day change only in the step
\* of a legacy GLONASS message (1009-1012), the count never decreasing and
\* growing by at most one per message.
C20_EachFamilyItsOwnState == [][FamilyFrame]_vars
\* Two legacy GLONASS messages either side of UTC midnight have been
\* processed: the second one moved the day-wrap count from 0 to 1 and
\* neither touched positions.
C20_Witness ==
  /\ Len(reader_log) = 2
  /\ reader_log[1].identity \in LEGACY_GLONASS_TYPES
  /\ reader_log[2].identity \in LEGACY_GLONASS_TYPES
  /\ reader_log[1].day_count = 0
  /\ glo_day_count = 1
  /\ last_glo_utc_sod = Some(glonass_utc_ms(Val(reader_log[2].epoch_ms)))
  /\ epochs # <<>>
  /\ positions = <<>>

\* C21: whenever _detect_position_change returns stable == false it also
\* returns a jump_index i with 1 <= i < num_reports such that report i (of
\* the reports with complete coordinates) differs from report 0 after
\* rounding to 4 decimals, every report before i agrees with report 0 after
\* rounding, and jump_distance_m is the Euclidean distance between the raw
\* coordinates of report i and report 0 (held as its square).
C21_UnstableNamesFirstJump ==
  (pos_info # None /\ ~Val(pos_info).stable) =>
    LET r == Val(pos_info)
        reports == CompleteReports
        Diff(a, b, f) == Val(reports[a + 1][f]) - Val(reports[b + 1][f])
    IN /\ r.jump_index # None
       /\ r.jump_distance_sq # None
       /\ r.num_reports = Len(reports)
       /\ 1 <= Val(r.jump_index) /\ Val(r.jump_index) < r.num_reports
       /\ ~ReportsAgree(reports[Val(r.jump_index) + 1], reports[1])
       /\ \A k \in 1..(Val(r.jump_index) - 1) : ReportsAgree(reports[k + 1], reports[1])
       /\ Val(r.jump_distance_sq)
            = Diff(Val(r.jump_index), 0, "ecef_x") * Diff(Val(r.jump_index), 0, "ecef_x")
              + Diff(Val(r.jump_index), 0, "ecef_y") * Diff(Val(r.jump_index), 0, "ecef_y")
              + Diff(Val(r.jump_index), 0, "ecef_z") * Diff(Val(r.jump_index), 0, "ecef_z")
\* An incomplete report, then three complete ones: the second is 0.04 mm
\* from the first and rounds to it, the third is 0.06 mm away and does not:
\* the jump is at index 2 of the complete reports, 0.06 mm from report 0.
C21_Witness ==
  /\ pos_info # None
  /\ ~Val(pos_info).stable
  /\ Len(positions) > Len(CompleteReports)
  /\ Val(pos_info).num_reports = 3
  /\ Val(pos_info).unique_count = 2
  /\ Val(pos_info).jump_index = Some(2)
  /\ Val(pos_info).jump_distance_sq = Some(36)
  /\ CompleteReports[2] # CompleteReports[1]

RECURSIVE SumOfCounts(_)
SumOfCounts(f) ==
  IF DOMAIN f = {} THEN 0
  ELSE LET k == CHOOSE x \in DOMAIN f : TRUE
       IN f[k] + SumOfCounts([x \in DOMAIN f \ {k} |-> f[x]])

\* C22: for every ParseResult produced by parse_rtcm3, the per-satellite
\* slip counts the detail report re-derives by replaying the stored
\* lock_time values over the epochs in ascending key order sum to the total
\* of the cycle_slips counters accumulated during the parse.
C22_ReplayedSlipsMatchCounters ==
  SumOfCounts(slip_by_sat(epochs, row_order(epochs)))
    = total_slips(epochs, row_order(epochs))

\* C23: whenever main runs without --summary-only and reports "Wrote N rows
\* to <path>", a CSV file with the header and exactly N rows has been
\* written at that path, for every N >= 0, a parse that produced no epochs
\* included.
C23_WroteMeansWritten ==
  \A i \in 1..Len(printed) :
    printed[i].line = "Wrote rows to" =>
      /\ printed[i].path \in DOMAIN Val(fs).files
      /\ Val(fs).files[printed[i].path].header = fieldnames
      /\ Len(Val(fs).files[printed[i].path].rows) = printed[i].n

\* What this run has done for the ZIP of that name.
RunEntries(zname) == SelectSeq(sync_log, LAMBDA e : e.zip = zname)

\* C24: a remote ZIP whose predicted RTCM3 name is in the set of files listed
\* from GCS at the start of the run is skipped: it is never downloaded,
\* extracted, analysed or uploaded in that run; and upload_to_gcs never
\* copies a file whose existence probe succeeds, so no existing GCS object is
\* overwritten (every object has been written once).
C24_SyncedZipSkippedNothingOverwritten ==
  /\ \A i \in 1..Len(device) :
       (sync_pc # "idle" /\ predict_rtcm3_name(device[i].name) \in existing_files) =>
         \A k \in 1..Len(RunEntries(device[i].name)) :
           RunEntries(device[i].name)[k].op = "skip"
  /\ \A n \in DOMAIN gcs : gcs[n] = 1

\* C25: the local ZIP and its extraction directory are deleted only after
\* upload_to_gcs has returned without error for that ZIP and only when
\* delete_after_upload is set; when an upload fails the exception is raised,
\* nothing of that ZIP is deleted and nothing more is done in the run; a dry
\* run never uploads or deletes.
C25_DeleteOnlyAfterUpload ==
  /\ \A i \in 1..Len(sync_log) :
       sync_log[i].op = "delete" =>
         /\ options.delete_after_upload
         /\ i > 1
         /\ sync_log[i - 1] = Did("uploaded", sync_log[i].zip, <<>>)
         /\ \A k \in 1..i : ~(sync_log[k].op = "cp_failed" /\ sync_log[k].zip = sync_log[i].zip)
  /\ \A i \in 1..Len(sync_log) :
       (/\ sync_log[i].op \in {"download", "extract"}
        /\ \A k \in i..Len(sync_log) :
             ~(sync_log[k].op = "delete" /\ sync_log[k].zip = sync_log[i].zip)) =>
         /\ sync_log[i].zip \in local_zips
         /\ sync_log[i].op = "extract" =>
              /\ extract_dir_of(sync_log[i].zip) \in DOMAIN extract_dirs
              /\ \A m \in 1..Len(members_of(sync_log[i].zip)) :
                   is_rtcm3(members_of(sync_log[i].zip)[m]) =>
                     members_of(sync_log[i].zip)[m]
                       \in extract_dirs[extract_dir_of(sync_log[i].zip)]
  /\ \A i \in 1..Len(sync_log) :
       sync_log[i].op = "cp_failed" =>
         /\ i = Len(sync_log)
         /\ raised
         /\ sync_pc \in {"finally", "done"}
  /\ options.dry_run =>
       /\ DOMAIN gcs = {}
       /\ \A i \in 1..Len(sync_log) :
            sync_log[i].op \notin {"exists", "cp", "cp_failed", "uploaded", "delete"}
\* With delete_after_upload set, the first ZIP was uploaded and deleted; the
\* upload of the second ZIP's status document failed after its RTCM3 file
\* was copied: the run ended there with the second ZIP and its directory
\* still in temp_dir.
C25_Witness ==
  /\ options.delete_after_upload
  /\ sync_pc = "done"
  /\ raised
  /\ \E i \in 1..Len(sync_log) : sync_log[i] = Did("delete", ZipA.name, <<>>)
  /\ ZipA.name \notin local_zips
  /\ sync_log[Len(sync_log)].op = "cp_failed"
  /\ sync_log[Len(sync_log)].zip = ZipB.name
  /\ is_status_json(sync_log[Len(sync_log)].file)
  /\ ZipB.members[1] \in DOMAIN gcs
  /\ ZipB.name \in local_zips
  /\ extract_dir_of(ZipB.name) \in DOMAIN extract_dirs
  /\ temp_dir

\* C26: on every exit path of sync_logs, every SSH and SFTP connection that
\* was opened during the run has been closed by the time sync_logs returns
\* or propagates the exception.
C26_ConnectionsClosedOnExit ==
  sync_pc = "done" => (ssh_conn # "open" /\ sftp_conn # "open")

\* The RTCM3 files of the device's archives.
ArchivedRtcm3 ==
  { a.members[m] : a \in {ZipA, ZipB, ZipE}, m \in 1..1 } \ { n \in {ZipE.members[1]} : ~is_rtcm3(n) }

\* C27: across repeated runs over the same archives, every RTCM3 file that
\* has been uploaded to GCS eventually has its .status.json uploaded as
\* well, failures being finitely many: a run in which the status report or
\* the JSON upload failed after the RTCM3 upload does not leave the status
\* document missing for ever.
C27_StatusEventuallyUploaded ==
  \A n \in ArchivedRtcm3 :
    (n \in DOMAIN gcs) ~> (status_json_name(n) \in DOMAIN gcs)
====
